---- MODULE Spec2Model ----
(***************************************************************************)
(* Tool installation automation: the job orchestrators                     *)
(* (src/src/core/orchestrator.py, src/src/core/orchestrator_v1.py), the    *)
(* static script validator, the work-list status writes and the process    *)
(* entry point (src/main.py).                                              *)
(*                                                                         *)
(* One work-list row is one Tool object and one job.  A job's externally   *)
(* visible steps (in-memory status assignments, work-list writes, artifact *)
(* writes, agent / validator calls) are recorded in order in log[r].       *)
(***************************************************************************)
EXTENDS Integers, Sequences, FiniteSets, TLC

\* ------------------------------------------------------------------ bounds
NumRows == 2
MaxConcurrent == 2

Rows == 1..NumRows

\* ------------------------------------------------------- models/tool.py
ToolStatus ==
    {"pending", "in_progress", "generating", "validating", "installing",
     "completed", "failed", "skipped"}

Terminal == {"completed", "failed"}

\* Position of a status in the pipeline order of Tool.status.
StatusRank(s) ==
    CASE s = "pending" -> 0
      [] s = "in_progress" -> 1
      [] s = "generating" -> 2
      [] s = "validating" -> 3
      [] s = "installing" -> 4
      [] s = "completed" -> 5
      [] s = "failed" -> 5
      [] s = "skipped" -> 5
      [] OTHER -> 0 - 1

\* ------------------------------------------------ core/script_validator.py
\* A script is described by the features the six checks look at.
\*   shebang: "exact"  first line is exactly #!/usr/bin/env bash
\*            "args"   text starts with that line but the first line goes on
\*            "none"   anything else
\*   lint:    what shellcheck would report ("clean", "warn", "error")
ScriptFeatures ==
    [shebang : {"exact", "args", "none"}, safety : BOOLEAN, syntax : BOOLEAN,
     lint : {"clean", "warn", "error"}, idem : BOOLEAN, secret : BOOLEAN]

PassFail(ok) == IF ok THEN "passed" ELSE "failed"

ValidateShebang(s) == PassFail(s.shebang = "exact")

ValidateSafetyFlags(s) == PassFail(s.safety)

ValidateBashSyntax(s) == PassFail(s.syntax)

ValidateShellcheck(s, have_shellcheck) ==
    IF ~have_shellcheck THEN "skipped"
    ELSE IF s.lint = "error" THEN "failed" ELSE "passed"

ValidateIdempotencyPattern(s) == PassFail(s.idem)

ValidateNoSecrets(s) == PassFail(~s.secret)

StepNames ==
    <<"shebang_check", "safety_flags", "bash_syntax", "shellcheck",
      "idempotency_check", "secrets_check">>

\* A validator that stops at the first failed step.
ValidateScript_ShortCircuit(s, have_shellcheck) ==
    LET all == <<ValidateShebang(s), ValidateSafetyFlags(s), ValidateBashSyntax(s),
                 ValidateShellcheck(s, have_shellcheck),
                 ValidateIdempotencyPattern(s), ValidateNoSecrets(s)>>
        bad == {i \in 1..Len(all) : all[i] = "failed"}
    IN  IF bad = {} THEN all
        ELSE SubSeq(all, 1, CHOOSE i \in bad : \A j \in bad : i <= j)

\* validate_script: every step runs, in this order; none raises.
ValidateScript(s, have_shellcheck) ==
    <<ValidateShebang(s), ValidateSafetyFlags(s), ValidateBashSyntax(s),
      ValidateShellcheck(s, have_shellcheck), ValidateIdempotencyPattern(s),
      ValidateNoSecrets(s)>>

\* A check that takes every status other than passed for a failure.
AnyFailed_NotPassed(results) == \E i \in 1..Len(results) : results[i] # "passed"

AnyFailed(results) == \E i \in 1..Len(results) : results[i] = "failed"

\* ------------------------------------------------------- models/claude.py
\* ClaudeResponse.validate_script_format: construction raises unless the text
\* starts with the shebang and contains the safety flags.
ScriptFormatValid(s) == s.shebang # "none" /\ s.safety

GoodScript ==
    [shebang |-> "exact", safety |-> TRUE, syntax |-> TRUE, lint |-> "warn",
     idem |-> TRUE, secret |-> FALSE]

\* Passes the response validator, fails the idempotency check.
NoGuardScript == [GoodScript EXCEPT !.idem = FALSE]

\* The script text of _create_fallback_response: no 'set -euo pipefail'.
FallbackScript ==
    [shebang |-> "exact", safety |-> FALSE, syntax |-> TRUE, lint |-> "clean",
     idem |-> FALSE, secret |-> FALSE]

NoScript == [shebang |-> "none", safety |-> FALSE, syntax |-> FALSE,
             lint |-> "clean", idem |-> FALSE, secret |-> FALSE]

\* What the agent can send back to generate_installation_script.
\*   kind "error": the query raises; "badjson": the text is not JSON;
\*   "json": a parsed object with a script and a blockers flag.
AgentReplies ==
    {[kind |-> "error", script |-> NoScript, blockers |-> FALSE],
     [kind |-> "badjson", script |-> NoScript, blockers |-> FALSE],
     [kind |-> "json", script |-> GoodScript, blockers |-> FALSE],
     [kind |-> "json", script |-> GoodScript, blockers |-> TRUE],
     [kind |-> "json", script |-> NoGuardScript, blockers |-> FALSE],
     [kind |-> "json", script |-> FallbackScript, blockers |-> FALSE]}

\* generate_installation_script: "raise", or the response it returns.
GenerateInstallationScript(reply) ==
    IF reply.kind = "error" THEN [raised |-> TRUE, script |-> NoScript, blockers |-> FALSE]
    ELSE IF reply.kind = "badjson"
         THEN \* fallback response; its own script fails the response validator
              IF ScriptFormatValid(FallbackScript)
              THEN [raised |-> FALSE, script |-> FallbackScript, blockers |-> TRUE]
              ELSE [raised |-> TRUE, script |-> NoScript, blockers |-> FALSE]
    ELSE IF ScriptFormatValid(reply.script)
         THEN [raised |-> FALSE, script |-> reply.script, blockers |-> reply.blockers]
         ELSE [raised |-> TRUE, script |-> NoScript, blockers |-> FALSE]

\* ------------------------------------------------------------------ state
VARIABLES
    variant,              \* "v1" (orchestrator_v1.py) or "builtin" (orchestrator.py)
    dry_run,              \* self.dry_run
    max_concurrent_jobs,  \* self.max_concurrent_jobs
    docker_available,     \* the docker binary is installed and its daemon answers
    semaphore,            \* free slots of self.semaphore
    read_status,          \* status of each row as read_tools returned it
    status,               \* Tool.status of each row's Tool object
    pc,                   \* where each row's job is
    log,                  \* what each job did, in order
    result,               \* v1: the local InstallationResult
    ret,                  \* what the job's coroutine handed to gather
    script,               \* v1: claude_response.script_bash
    run_pc,               \* where run() is
    summary,              \* what run() returned
    main_pc,              \* where main() is
    exit_code             \* the argument of sys.exit

cfgVars == <<variant, dry_run, max_concurrent_jobs, docker_available>>
jobVars == <<status, pc, log, result, ret, script>>
runVars == <<read_status, run_pc, summary>>
mainVars == <<main_pc, exit_code>>
orchVars == <<cfgVars, semaphore, jobVars, runVars, mainVars>>

\* The failure message of one job (lengths of texts, in characters).
VARIABLES
    error_path,           \* which failure branch builds the message
    error_text,           \* length of the underlying error text
    error_message,        \* length of Tool.error_message
    sheet_message         \* length of the message written to the work list

errVars == <<error_path, error_text, error_message, sheet_message>>

NoMessage == 0 - 1

ErrIdle ==
    /\ error_path = "none"
    /\ error_text = 0
    /\ error_message = NoMessage
    /\ sheet_message = NoMessage

\* DockerRunner (core/docker_runner.py) and the Docker namespace it acts on.
VARIABLES
    cleanup_containers,   \* self.cleanup_containers
    build_timeout,        \* self.build_timeout
    run_timeout,          \* self.run_timeout
    clock,                \* int(time.time())
    containers,           \* names of the containers that exist
    images,               \* tags of the images that exist
    tool_name,            \* tool_spec.name of each invocation
    container_name,       \* container_name of each invocation
    ri_pc,                \* where each run_installation invocation is
    process,              \* the subprocess the invocation awaits
    stage_log,            \* how the stages of the invocation ended, in order
    validation,           \* the ValidationResult the invocation returns
    removals,             \* removal commands its cleanups issued
    cleanups              \* number of _cleanup calls made for its name

dockerCfg == <<cleanup_containers, build_timeout, run_timeout>>
dockerEnv == <<clock, containers, images>>
dockerInv == <<tool_name, container_name, ri_pc, process, stage_log, validation,
               removals, cleanups>>
dockerVars == <<dockerCfg, dockerEnv, dockerInv>>

NumInvocations == 2

Invocations == 1..NumInvocations

NoName == <<"", 0>>

NoResult == [step |-> "none", status |-> "none", error |-> <<>>, output |-> <<>>]

\* No DockerRunner in use: no invocation of run_installation exists.
DockerIdle ==
    /\ cleanup_containers = TRUE
    /\ build_timeout = 0
    /\ run_timeout = 0
    /\ clock = 0
    /\ containers = {}
    /\ images = {}
    /\ tool_name = <<>>
    /\ container_name = <<>>
    /\ ri_pc = <<>>
    /\ process = <<>>
    /\ stage_log = <<>>
    /\ validation = <<>>
    /\ removals = <<>>
    /\ cleanups = <<>>

\* The artifact files of a run (core/artifact_manager.py).
VARIABLES
    work_items,           \* (tool name, version) of each row
    next_file,            \* index of the next artifact each row's job writes
    files                 \* (row, path) for every file written so far

artVars == <<work_items, next_file, files>>

\* No artifact written and no job writing any.
ArtIdle ==
    /\ work_items = <<>>
    /\ next_file = <<>>
    /\ files = {}

\* One call of ScriptValidator.validate_script and the decision taken on it.
VARIABLES
    script_file,          \* the file at script_path: its features, or missing
    shellcheck_installed, \* shutil.which('shellcheck')
    validation_results,   \* the list validate_script returned
    static_failed         \* orchestrator_v1.py l.197, once evaluated

valVars == <<script_file, shellcheck_installed, validation_results, static_failed>>

MissingFile == [shebang |-> "missing", safety |-> FALSE, syntax |-> FALSE,
                lint |-> "clean", idem |-> FALSE, secret |-> FALSE]

ValIdle ==
    /\ script_file = MissingFile
    /\ shellcheck_installed = FALSE
    /\ validation_results = <<>>
    /\ static_failed = "unknown"

\* SharedDependencyAggregator (core/shared_deps.py): one aggregate_and_write.
VARIABLES
    manifests,            \* the manifests found, in discovery order
    loaded,               \* how many of them the loop of aggregate has taken
    apt,                  \* the sets aggregate collects (l.40-45) ...
    runtimes,
    libs,
    services,
    env_path_entries,
    aggregated,           \* the aggregated manifest, once written
    shared_script         \* what shared_setup.sh does, once written

aggVars == <<manifests, loaded, apt, runtimes, libs, services, env_path_entries,
             aggregated, shared_script>>

NotWritten == <<>>

\* No aggregation under way.
AggIdle ==
    /\ manifests = <<>>
    /\ loaded = 0
    /\ apt = {} /\ runtimes = {} /\ libs = {} /\ services = {}
    /\ env_path_entries = {}
    /\ aggregated = NotWritten
    /\ shared_script = NotWritten

\* MultiToolComposer (core/composer.py) and one execution of its run_all.sh.
VARIABLES
    tool_dirs,            \* what each directory under tools/ holds
    tool_names,           \* the list _list_tools returned
    run_all,              \* the steps of run_all.sh, in order
    dockerfile,           \* the tools the Dockerfile copies, in order
    supports_flag,        \* does the tool's installer know --skip-prereqs
    driver_pc,            \* the step of run_all.sh that runs next
    trace,                \* the commands run_all.sh has run, with their ends
    driver_exit           \* exit status of run_all.sh, once it has ended

compVars == <<tool_dirs, tool_names, run_all, dockerfile, supports_flag,
              driver_pc, trace, driver_exit>>

NoExitYet == 0 - 1

\* No composition under way.
CompIdle ==
    /\ tool_dirs = <<>>
    /\ tool_names = <<>>
    /\ run_all = <<>>
    /\ dockerfile = <<>>
    /\ supports_flag = <<>>
    /\ driver_pc = 0
    /\ trace = <<>>
    /\ driver_exit = NoExitYet

auxVars == <<errVars, dockerVars, artVars, valVars, aggVars, compVars>>

AuxIdle == ErrIdle /\ DockerIdle /\ ArtIdle /\ ValIdle /\ AggIdle /\ CompIdle

notErrVars == <<orchVars, dockerVars, artVars, valVars, aggVars, compVars>>
notDockerVars == <<orchVars, errVars, artVars, valVars, aggVars, compVars>>
notArtVars == <<orchVars, errVars, dockerVars, valVars, aggVars, compVars>>
notValVars == <<orchVars, errVars, dockerVars, artVars, aggVars, compVars>>
notAggVars == <<orchVars, errVars, dockerVars, artVars, valVars, compVars>>
notCompVars == <<orchVars, errVars, dockerVars, artVars, valVars, aggVars>>

vars == <<orchVars, auxVars>>

NoSummary ==
    [total_tools |-> 0 - 1, processed |-> 0 - 1, successful |-> 0 - 1,
     failed |-> 0 - 1, has_version |-> FALSE]

NoExit == 0 - 1

\* The state after start-up, on a host whose Docker state is one of `hosts`.
OrchestratorInit(hosts) ==
    /\ variant \in {"v1", "builtin"}
    /\ dry_run \in BOOLEAN
    /\ max_concurrent_jobs \in 1..MaxConcurrent
    /\ docker_available \in hosts
    /\ semaphore = max_concurrent_jobs
    /\ read_status = [r \in Rows |-> "none"]
    /\ status = [r \in Rows |-> "none"]
    /\ pc = [r \in Rows |-> "idle"]
    /\ log = [r \in Rows |-> <<>>]
    /\ result = [r \in Rows |-> "unbound"]
    /\ ret = [r \in Rows |-> "none"]
    /\ script = [r \in Rows |-> NoScript]
    /\ run_pc = IF variant = "v1" THEN "new" ELSE "idle"
    /\ summary = NoSummary
    /\ main_pc = IF variant = "v1" THEN "none" ELSE "setup"
    /\ exit_code = NoExit
    /\ AuxIdle

\* A host with a working Docker installation.
Init == OrchestratorInit({TRUE})

\* Any host, with or without Docker.
AnyHostInit == OrchestratorInit(BOOLEAN)

\* The orchestrator before any run, for the specifications of its parts.
OrchestratorIdleAs(v, slots) ==
    /\ variant = v
    /\ dry_run = FALSE
    /\ max_concurrent_jobs = slots
    /\ docker_available = TRUE
    /\ semaphore = slots
    /\ read_status = [r \in Rows |-> "none"]
    /\ status = [r \in Rows |-> "none"]
    /\ pc = [r \in Rows |-> "idle"]
    /\ log = [r \in Rows |-> <<>>]
    /\ result = [r \in Rows |-> "unbound"]
    /\ ret = [r \in Rows |-> "none"]
    /\ script = [r \in Rows |-> NoScript]
    /\ run_pc = "read"
    /\ summary = NoSummary
    /\ main_pc = "none"
    /\ exit_code = NoExit

OrchestratorIdle == OrchestratorIdleAs("v1", 1)

\* --------------------------------------------------------- log and helpers
\* Tool.update_status: the in-memory assignment.
UpdateStatus(s) == <<<<"status", s>>>>

\* sheets_client.update_tool_status: one write of the row's status cell; an
\* API error is logged inside the call and never raised.
UpdateToolStatus(s) == <<<<"write", s>>>>

Call(what) == <<<<"call", what>>>>

Artifact(what) == <<<<"artifact", what>>>>

\* A stage of the job ended in failure (the stage's result, or a raise).
Failure(what) == <<<<"fail", what>>>>

Kind(r, k) == SelectSeq(log[r], LAMBDA e : e[1] = k)

\* The statuses assigned in memory / written to the work-list, in order.
Assigned(r) == [i \in 1..Len(Kind(r, "status")) |-> Kind(r, "status")[i][2]]

Written(r) == [i \in 1..Len(Kind(r, "write")) |-> Kind(r, "write")[i][2]]

Called(r, what) == \E i \in 1..Len(log[r]) : log[r][i] = <<"call", what>>

\* The status the work-list shows for the row.
SheetStatus(r) ==
    IF Written(r) = <<>> THEN read_status[r] ELSE Written(r)[Len(Written(r))]

\* A filter that re-runs everything not finished.
NeedsProcessing_NotFinished(s) == s \notin {"completed", "skipped"}

\* run(): the filter that selects the tools to process.
NeedsProcessing(s) == s \in {"pending", "failed"}

PendingTools == {r \in Rows : NeedsProcessing(read_status[r])}

\* A gate that lets one job too many in.
CanAcquire_OffByOne(value) == value >= 0

\* asyncio.Semaphore: acquire passes while a slot is free.
CanAcquire(value) == value > 0

\* asyncio.Semaphore.release, on leaving the `async with` block.
ReleaseSemaphore(value) == value + 1

Inside == {r \in Rows : pc[r] \notin {"idle", "wait", "done"}}

\* ----------------------------------------------------- the admission gate
\* `async with self.semaphore`: entry (both orchestrators).
Acquire(r) ==
    /\ pc[r] = "wait"
    /\ CanAcquire(semaphore)
    /\ semaphore' = semaphore - 1
    /\ pc' = [pc EXCEPT ![r] = "start"]
    /\ UNCHANGED <<auxVars, cfgVars, status, log, result, ret, script,
                   runVars, mainVars>>

\* The coroutine leaves the `async with` block with value v (a return or a
\* raise): the slot is released and gather receives v.  The job's locals (result, claude_response) end with the coroutine.
Leave(r, v) ==
    /\ pc' = [pc EXCEPT ![r] = "done"]
    /\ ret' = [ret EXCEPT ![r] = v]
    /\ semaphore' = ReleaseSemaphore(semaphore)
    /\ result' = [result EXCEPT ![r] = "unbound"]
    /\ script' = [script EXCEPT ![r] = NoScript]

\* What `return result` hands over for an InstallationResult.
Returned(res) == IF res = "success" THEN "success" ELSE "failure"

\* --------------------------------------- orchestrator_v1.py: _process_tool
IsV1(r) == variant = "v1" /\ r \in Rows

\* l.121-134: IN_PROGRESS, its write, and the local result object.
ProcessTool_InProgress(r) ==
    /\ IsV1(r) /\ pc[r] = "start"
    /\ status' = [status EXCEPT ![r] = "in_progress"]
    /\ log' = [log EXCEPT ![r] = @ \o UpdateStatus("in_progress")
                                   \o UpdateToolStatus("in_progress")]
    /\ result' = [result EXCEPT ![r] = "open"]
    /\ pc' = [pc EXCEPT ![r] = "generate"]
    /\ UNCHANGED <<auxVars, cfgVars, semaphore, ret, script, runVars, mainVars>>

\* l.137-146: GENERATING, its write, and the agent call is started.
ProcessTool_Generating(r) ==
    /\ IsV1(r) /\ pc[r] = "generate"
    /\ status' = [status EXCEPT ![r] = "generating"]
    /\ log' = [log EXCEPT ![r] = @ \o UpdateStatus("generating")
                                   \o UpdateToolStatus("generating")
                                   \o Call("agent")]
    /\ pc' = [pc EXCEPT ![r] = "agent"]
    /\ UNCHANGED <<auxVars, cfgVars, semaphore, result, ret, script,
                   runVars, mainVars>>

\* A blockers branch that records the failure and lacks the `return`.
BlockersBranch_NoReturn(r, resp) ==
    /\ status' = [status EXCEPT ![r] = "failed"]
    /\ log' = [log EXCEPT ![r] = @ \o Failure("blockers")
                                   \o UpdateStatus("failed")
                                   \o UpdateToolStatus("failed")]
    /\ script' = [script EXCEPT ![r] = resp.script]
    /\ pc' = [pc EXCEPT ![r] = "save_script"]
    /\ UNCHANGED <<semaphore, result, ret>>

\* l.149-157: what the job does with a response carrying blockers.
BlockersBranch(r, resp) ==
    /\ status' = [status EXCEPT ![r] = "failed"]
    /\ log' = [log EXCEPT ![r] = @ \o Failure("blockers")
                                   \o UpdateStatus("failed")
                                   \o UpdateToolStatus("failed")]
    /\ Leave(r, "failure")

\* l.141-157: the agent call ends.
ProcessTool_AgentReturns(r) ==
    /\ IsV1(r) /\ pc[r] = "agent"
    /\ \E reply \in AgentReplies :
         LET resp == GenerateInstallationScript(reply) IN
         IF resp.raised
         THEN /\ pc' = [pc EXCEPT ![r] = "except"]
              /\ log' = [log EXCEPT ![r] = @ \o Failure("agent")]
              /\ UNCHANGED <<semaphore, status, result, ret, script>>
         ELSE IF resp.blockers
         THEN BlockersBranch(r, resp)
         ELSE /\ script' = [script EXCEPT ![r] = resp.script]
              /\ pc' = [pc EXCEPT ![r] = "save_script"]
              /\ UNCHANGED <<semaphore, status, log, result, ret>>
    /\ UNCHANGED <<auxVars, cfgVars, runVars, mainVars>>

\* An artifact write of the job at position `at`: it succeeds and the job goes
\* on to `next`, or it raises into the job's except clause.
ArtifactWrite(r, at, what, next) ==
    /\ pc[r] = at
    /\ \E ok \in BOOLEAN :
         IF ok
         THEN /\ log' = [log EXCEPT ![r] = @ \o Artifact(what)]
              /\ pc' = [pc EXCEPT ![r] = next]
         ELSE /\ pc' = [pc EXCEPT ![r] = "except"]
              /\ log' = [log EXCEPT ![r] = @ \o Failure(what)]
    /\ UNCHANGED <<auxVars, cfgVars, semaphore, status, result, ret, script,
                   runVars, mainVars>>

\* l.160-165: artifact_manager.save_script.
ProcessTool_SaveScript(r) == IsV1(r) /\ ArtifactWrite(r, "save_script", "script", "save_metadata")

\* l.168-186: metadata.json.
ProcessTool_SaveMetadata(r) == IsV1(r) /\ ArtifactWrite(r, "save_metadata", "metadata", "validate")

\* l.189-191: VALIDATING and its write.
ProcessTool_Validating(r) ==
    /\ IsV1(r) /\ pc[r] = "validate"
    /\ status' = [status EXCEPT ![r] = "validating"]
    /\ log' = [log EXCEPT ![r] = @ \o UpdateStatus("validating")
                                   \o UpdateToolStatus("validating")]
    /\ pc' = [pc EXCEPT ![r] = "static"]
    /\ UNCHANGED <<auxVars, cfgVars, semaphore, result, ret, script,
                   runVars, mainVars>>

\* _save_result (l.312-321): the write of result.json; a failure of the write
\* is caught and logged inside, so the caller sees no difference.
SaveResult == Artifact("result")

\* l.197: does the static validation fail the job?
StaticFailed(results) == AnyFailed(results)

\* l.193-208: validate_script and the failure branch.
ProcessTool_StaticValidation(r) ==
    /\ IsV1(r) /\ pc[r] = "static"
    /\ \E have_shellcheck \in BOOLEAN :
         LET results == ValidateScript(script[r], have_shellcheck) IN
         IF StaticFailed(results)
         THEN /\ status' = [status EXCEPT ![r] = "failed"]
              /\ log' = [log EXCEPT ![r] = @ \o Call("static")
                                             \o Failure("static")
                                             \o UpdateStatus("failed")
                                             \o UpdateToolStatus("failed")
                                             \o SaveResult]
              /\ Leave(r, "failure")
         ELSE /\ log' = [log EXCEPT ![r] = @ \o Call("static")]
              /\ pc' = [pc EXCEPT ![r] = "static_passed"]
              /\ UNCHANGED <<semaphore, status, result, ret, script>>
    /\ UNCHANGED <<auxVars, cfgVars, runVars, mainVars>>

\* A pipeline that ignores the dry-run flag.
UseDocker_Always(dry) == TRUE

\* l.211: is the container run part of this run?
UseDocker(dry) == ~dry

\* l.211-220: INSTALLING, its write, and the container run is started.
ProcessTool_Installing(r) ==
    /\ IsV1(r) /\ pc[r] = "static_passed"
    /\ UseDocker(dry_run)
    /\ status' = [status EXCEPT ![r] = "installing"]
    /\ log' = [log EXCEPT ![r] = @ \o UpdateStatus("installing")
                                   \o UpdateToolStatus("installing")
                                   \o Call("docker")]
    /\ pc' = [pc EXCEPT ![r] = "docker"]
    /\ UNCHANGED <<auxVars, cfgVars, semaphore, result, ret, script,
                   runVars, mainVars>>

\* l.216-235: run_installation returns (it never raises) and the failure branch.
ProcessTool_DockerReturns(r) ==
    /\ IsV1(r) /\ pc[r] = "docker"
    /\ \E docker_status \in {"passed", "failed"} :
         IF docker_status = "failed"
         THEN /\ status' = [status EXCEPT ![r] = "failed"]
              /\ log' = [log EXCEPT ![r] = @ \o Failure("docker")
                                             \o UpdateStatus("failed")
                                             \o UpdateToolStatus("failed")
                                             \o SaveResult]
              /\ Leave(r, "failure")
         ELSE /\ pc' = [pc EXCEPT ![r] = "succeed"]
              /\ UNCHANGED <<semaphore, status, log, result, ret, script>>
    /\ UNCHANGED <<auxVars, cfgVars, runVars, mainVars>>

\* l.237-239: result.complete(success=True) and COMPLETED in memory.
ProcessTool_Completed(r) ==
    /\ IsV1(r)
    /\ \/ pc[r] = "succeed"
       \/ pc[r] = "static_passed" /\ ~UseDocker(dry_run)
    /\ status' = [status EXCEPT ![r] = "completed"]
    /\ log' = [log EXCEPT ![r] = @ \o UpdateStatus("completed")]
    /\ result' = [result EXCEPT ![r] = "success"]
    /\ pc' = [pc EXCEPT ![r] = "provenance"]
    /\ UNCHANGED <<auxVars, cfgVars, semaphore, ret, script, runVars, mainVars>>

\* l.241-247: provenance.json.
ProcessTool_SaveProvenance(r) == IsV1(r) /\ ArtifactWrite(r, "provenance", "provenance", "report")

\* l.249-261: the COMPLETED write, result.json, return.
ProcessTool_Report(r) ==
    /\ IsV1(r) /\ pc[r] = "report"
    /\ log' = [log EXCEPT ![r] = @ \o UpdateToolStatus("completed") \o SaveResult]
    /\ Leave(r, Returned(result[r]))
    /\ UNCHANGED <<auxVars, cfgVars, status, runVars, mainVars>>

\* A job without the except clause: the raise leaves the coroutine as it is.
ProcessTool_Except_Propagates(r) ==
    /\ IsV1(r) /\ pc[r] = "except"
    /\ Leave(r, "exception")
    /\ UNCHANGED <<auxVars, cfgVars, status, log, runVars, mainVars>>

\* l.263-277: the except clause of the job.
ProcessTool_Except(r) ==
    /\ IsV1(r) /\ pc[r] = "except"
    /\ status' = [status EXCEPT ![r] = "failed"]
    /\ log' = [log EXCEPT ![r] = @ \o UpdateStatus("failed") \o UpdateToolStatus("failed")]
    /\ IF result[r] # "unbound"
       THEN Leave(r, "failure")      \* result.complete(success=False); return result
       ELSE Leave(r, "exception")    \* raise
    /\ UNCHANGED <<auxVars, cfgVars, runVars, mainVars>>

\* ---------------------------- orchestrator.py: _process_tool_with_claude
IsBuiltin(r) == variant = "builtin" /\ r \in Rows

\* What claude_agent.install_tool can do: return a result dict with success
\* true or false, or raise.
InstallToolOutcomes == {"success", "failure", "raise"}

\* l.117-135: IN_PROGRESS, its write, and the agent is launched.
ProcessToolWithClaude_InProgress(r) ==
    /\ IsBuiltin(r) /\ pc[r] = "start"
    /\ status' = [status EXCEPT ![r] = "in_progress"]
    /\ log' = [log EXCEPT ![r] = @ \o UpdateStatus("in_progress")
                                   \o UpdateToolStatus("in_progress")
                                   \o Call("agent")]
    /\ pc' = [pc EXCEPT ![r] = "agent"]
    /\ UNCHANGED <<auxVars, cfgVars, semaphore, result, ret, script,
                   runVars, mainVars>>

\* l.129-153: install_tool ends; COMPLETED or FAILED with its write.
ProcessToolWithClaude_AgentReturns(r) ==
    /\ IsBuiltin(r) /\ pc[r] = "agent"
    /\ \E outcome \in InstallToolOutcomes :
         IF outcome = "raise"
         THEN /\ pc' = [pc EXCEPT ![r] = "except"]
              /\ log' = [log EXCEPT ![r] = @ \o Failure("agent")]
              /\ UNCHANGED <<status, result>>
         ELSE LET s == IF outcome = "success" THEN "completed" ELSE "failed"
                  f == IF outcome = "success" THEN <<>> ELSE Failure("agent") IN
              /\ status' = [status EXCEPT ![r] = s]
              /\ log' = [log EXCEPT ![r] = @ \o f \o UpdateStatus(s) \o UpdateToolStatus(s)]
              /\ result' = [result EXCEPT ![r] = outcome]
              /\ pc' = [pc EXCEPT ![r] = "save_result"]
    /\ UNCHANGED <<auxVars, cfgVars, semaphore, ret, script, runVars, mainVars>>

\* l.155-165: claude_result.json is written and the result dict is returned,
\* or the write raises into the except clause.
ProcessToolWithClaude_SaveResult(r) ==
    /\ IsBuiltin(r) /\ pc[r] = "save_result"
    /\ \E ok \in BOOLEAN :
         IF ok
         THEN /\ log' = [log EXCEPT ![r] = @ \o Artifact("claude_result")]
              /\ Leave(r, Returned(result[r]))
         ELSE /\ pc' = [pc EXCEPT ![r] = "except"]
              /\ log' = [log EXCEPT ![r] = @ \o Failure("claude_result")]
              /\ UNCHANGED <<ret, semaphore, result, script>>
    /\ UNCHANGED <<auxVars, cfgVars, status, runVars, mainVars>>

\* l.167-181: the except clause of the job; it returns a failure dict.
ProcessToolWithClaude_Except(r) ==
    /\ IsBuiltin(r) /\ pc[r] = "except"
    /\ status' = [status EXCEPT ![r] = "failed"]
    /\ log' = [log EXCEPT ![r] = @ \o UpdateStatus("failed") \o UpdateToolStatus("failed")]
    /\ Leave(r, "failure")
    /\ UNCHANGED <<auxVars, cfgVars, runVars, mainVars>>

\* ------------------------------------------------------------------ run()
Count(S) == Cardinality(S)

\* The summary of the early return (no tool needs processing).
EmptySummary(total) ==
    [total_tools |-> total, processed |-> 0, successful |-> 0, failed |-> 0,
     has_version |-> FALSE]

\* A count that takes every returned result for a success, whatever its
\* success field says.
GatheredSummary_AnyResult(total, selected, rets, v) ==
    [total_tools |-> total,
     processed |-> Count(selected),
     successful |-> Count({r \in selected : rets[r] # "exception"}),
     failed |-> Count({r \in selected : rets[r] \in {"failure", "exception"}}),
     has_version |-> (v = "builtin")]

\* The summary built from what gather collected (return_exceptions=True).
GatheredSummary(total, selected, rets, v) ==
    [total_tools |-> total,
     processed |-> Count(selected),
     successful |-> Count({r \in selected : rets[r] = "success"}),
     failed |-> Count({r \in selected : rets[r] \in {"failure", "exception"}}),
     has_version |-> (v = "builtin")]

\* read_tools, the filter, and either the early return or the jobs' creation.
Run_ReadTools ==
    /\ run_pc = "read"
    /\ \/ \* read_tools raises: run() raises
          /\ run_pc' = "raised"
          /\ UNCHANGED <<read_status, summary, status, pc>>
       \/ \E st \in [Rows -> ToolStatus] :
            /\ read_status' = st
            /\ status' = st
            /\ IF \A r \in Rows : ~NeedsProcessing(st[r])
               THEN /\ summary' = EmptySummary(NumRows)
                    /\ run_pc' = "returned"
                    /\ UNCHANGED pc
               ELSE /\ pc' = [r \in Rows |-> IF NeedsProcessing(st[r]) THEN "wait" ELSE "idle"]
                    /\ run_pc' = "gather"
                    /\ UNCHANGED summary
    /\ UNCHANGED <<auxVars, cfgVars, semaphore, log, result, ret, script, mainVars>>

\* gather returns once every job has ended; the results are counted.
Run_Gather ==
    /\ run_pc = "gather"
    /\ \A r \in PendingTools : pc[r] = "done"
    /\ summary' = GatheredSummary(NumRows, PendingTools, ret, variant)
    /\ run_pc' = "save_summary"
    /\ UNCHANGED <<auxVars, cfgVars, semaphore, jobVars, read_status, mainVars>>

\* summary.json is written and the summary returned, or the write raises.
Run_SaveSummary ==
    /\ run_pc = "save_summary"
    /\ \E ok \in BOOLEAN : run_pc' = IF ok THEN "returned" ELSE "raised"
    /\ UNCHANGED <<auxVars, cfgVars, semaphore, jobVars, read_status, summary, mainVars>>

\* ------------------------------------------------------------ construction
\* DockerRunner._check_docker (docker_runner.py l.37-51): passes only when
\* the binary is found and `docker info` succeeds; raises otherwise.
CheckDocker(available) == available

\* orchestrator_v1.py __init__ (l.25-58): builds a DockerRunner (l.48), whose
\* constructor runs _check_docker; orchestrator.py __init__ (l.21-52) has no
\* such check.
Construct_V1 ==
    /\ variant = "v1" /\ run_pc = "new"
    /\ run_pc' = IF CheckDocker(docker_available) THEN "read" ELSE "construction_failed"
    /\ UNCHANGED <<auxVars, cfgVars, semaphore, jobVars, read_status, summary, mainVars>>

\* ----------------------------------------------------------------- main()
\* main.py l.159-191: configuration and construction; any failure is fatal.
Main_Setup ==
    /\ main_pc = "setup"
    /\ \E ok \in BOOLEAN :
         IF ok
         THEN /\ main_pc' = "run"
              /\ run_pc' = "read"
              /\ UNCHANGED exit_code
         ELSE /\ main_pc' = "exited"
              /\ exit_code' = 1
              /\ UNCHANGED run_pc
    /\ UNCHANGED <<auxVars, cfgVars, semaphore, jobVars, read_status, summary>>

\* main.py l.195-217: the summary is logged key by key, then the exit code.
\* A raise anywhere in the try block ends in sys.exit(1).
ExitCode(run_state, results) ==
    IF run_state = "raised" THEN 1
    ELSE IF ~results.has_version THEN 1    \* KeyError: 'orchestrator_version'
    ELSE IF results.failed > 0 THEN 1 ELSE 0

Main_Exit ==
    /\ main_pc = "run"
    /\ run_pc \in {"returned", "raised"}
    /\ exit_code' = ExitCode(run_pc, summary)
    /\ main_pc' = "exited"
    /\ UNCHANGED <<auxVars, cfgVars, semaphore, jobVars, runVars>>

\* ------------------------------------------------------------ specification
Job(r) ==
    \/ Acquire(r)
    \/ ProcessTool_InProgress(r)
    \/ ProcessTool_Generating(r)
    \/ ProcessTool_AgentReturns(r)
    \/ ProcessTool_SaveScript(r)
    \/ ProcessTool_SaveMetadata(r)
    \/ ProcessTool_Validating(r)
    \/ ProcessTool_StaticValidation(r)
    \/ ProcessTool_Installing(r)
    \/ ProcessTool_DockerReturns(r)
    \/ ProcessTool_Completed(r)
    \/ ProcessTool_SaveProvenance(r)
    \/ ProcessTool_Report(r)
    \/ ProcessTool_Except(r)
    \/ ProcessToolWithClaude_InProgress(r)
    \/ ProcessToolWithClaude_AgentReturns(r)
    \/ ProcessToolWithClaude_SaveResult(r)
    \/ ProcessToolWithClaude_Except(r)

Next ==
    \/ Construct_V1
    \/ Main_Setup
    \/ Run_ReadTools
    \/ \E r \in Rows : Job(r)
    \/ Run_Gather
    \/ Run_SaveSummary
    \/ Main_Exit

Spec == Init /\ [][Next]_vars

AnyHostSpec == AnyHostInit /\ [][Next]_vars

\* Every started step of a run is eventually taken: the event loop runs each
\* ready coroutine, and every awaited external call returns or raises.
FairSpec == Spec /\ WF_vars(Next)

\* ------------------------------------------------- failure messages
MaxErrorLen == 205

\* orchestrator.py l.147: the slice [:200].
ErrorLimit == 200

FailurePaths ==
    {"agent_errors", "agent_exception", "blockers", "static", "docker", "exception"}

Min(a, b) == IF a < b THEN a ELSE b

\* text[:200]
Truncate(n) == Min(n, ErrorLimit)

\* Length of the error_msg handed to Tool.update_status on each failure
\* branch, for an underlying error text of n characters.
ErrorSummary(path, n) ==
    CASE path = "agent_errors" -> Truncate(n)    \* orchestrator.py l.147
      [] path = "agent_exception" -> n           \* orchestrator.py l.171: str(e)
      [] path = "blockers" -> 26 + n             \* v1 l.150: "Claude reported blockers: " + text
      [] path = "static" -> 24                   \* v1 l.198: "Static validation failed"
      [] path = "docker" -> 28 + n               \* v1 l.227: "Docker installation failed: " + text
      [] path = "exception" -> n                 \* v1 l.267: str(e)

\* Length of the message handed to update_tool_status on the same branch.
SheetMessage(path, n) ==
    CASE path = "agent_errors" -> 21 + Truncate(n)   \* l.151: "Installation failed: " + error_msg
      [] path = "agent_exception" -> 20 + n          \* l.173: "Claude agent error: " + str(e)
      [] path = "blockers" -> 26 + n                 \* v1 l.154-156: error_msg
      [] path = "static" -> 24                       \* v1 l.202-204
      [] path = "docker" -> 28 + n                   \* v1 l.231-233
      [] path = "exception" -> 7 + n                 \* v1 l.269: "Error: " + str(e)

\* Tool.update_status and update_tool_status store a text only when it is
\* not empty.
Stored(n) == IF n > 0 THEN n ELSE NoMessage

ErrorInit ==
    /\ OrchestratorIdle /\ DockerIdle /\ ArtIdle /\ ValIdle /\ AggIdle /\ CompIdle
    /\ error_path \in FailurePaths
    /\ error_text \in 0..MaxErrorLen
    /\ error_message = NoMessage
    /\ sheet_message = NoMessage

\* The job is moved to failed on branch error_path.
FailTool ==
    /\ error_path \in FailurePaths
    /\ error_message = NoMessage /\ sheet_message = NoMessage
    /\ error_message' = Stored(ErrorSummary(error_path, error_text))
    /\ sheet_message' = Stored(SheetMessage(error_path, error_text))
    /\ UNCHANGED <<notErrVars, error_path, error_text>>

ErrorNext == FailTool

ErrorSpec == ErrorInit /\ [][ErrorNext]_vars

\* ------------------------------------------------- core/docker_runner.py
MaxClock == 1

\* docker_runner.py l.31-32: the defaults of build_timeout and run_timeout.
DefaultBuildTimeout == 300

DefaultRunTimeout == 600

\* The default timeouts and a configured pair.
Timeouts == {<<DefaultBuildTimeout, DefaultRunTimeout>>, <<5, 7>>}

ToolNames == {"jq", "yq"}

\* A text of a result: what it says and the number it quotes, if any.
Msg(text, n) == <<text, n>>

NoText == <<>>

Result(step, verdict, error, output) ==
    [step |-> step, status |-> verdict, error |-> error, output |-> output]

\* l.69: f"tool-install-{tool_spec.name}-{int(time.time())}"
ContainerName(name, now) == <<name, now>>

\* l.90: f"{container_name}:latest"
ImageTag(cname) == <<cname, "latest">>

DockerInit ==
    /\ OrchestratorIdle /\ ErrIdle /\ ArtIdle /\ ValIdle /\ AggIdle /\ CompIdle
    /\ cleanup_containers \in BOOLEAN
    /\ \E pair \in Timeouts : build_timeout = pair[1] /\ run_timeout = pair[2]
    /\ clock = 0
    /\ containers = {}
    /\ images = {}
    /\ \E name \in ToolNames :
         tool_name = [i \in Invocations |-> IF i = 1 THEN name ELSE ""]
    /\ container_name = [i \in Invocations |-> NoName]
    /\ ri_pc = [i \in Invocations |-> "idle"]
    /\ process = [i \in Invocations |-> "none"]
    /\ stage_log = [i \in Invocations |-> <<>>]
    /\ validation = [i \in Invocations |-> NoResult]
    /\ removals = [i \in Invocations |-> {}]
    /\ cleanups = [i \in Invocations |-> 0]

\* A second of wall-clock time passes.
Tick ==
    /\ clock < MaxClock
    /\ clock' = clock + 1
    /\ UNCHANGED <<notDockerVars, dockerCfg, containers, images, dockerInv>>

\* The invocations between their call and their return; the caller holds a
\* slot of the orchestrator's gate around each (orchestrator_v1.py l.119).
InFlight == {i \in Invocations : ri_pc[i] \in {"build", "run", "finally"}}

\* What the try block of run_installation ends with on stage outcome `how`.
EndStage(i, how, res, proc) ==
    /\ stage_log' = [stage_log EXCEPT ![i] = Append(@, how)]
    /\ validation' = [validation EXCEPT ![i] = res]
    /\ process' = [process EXCEPT ![i] = proc]
    /\ ri_pc' = [ri_pc EXCEPT ![i] = "finally"]

\* l.68-84 and the start of _build_image (l.149-156), up to the first await.
StartInstallation(i) ==
    /\ ri_pc[i] = "idle"
    /\ tool_name[i] \in ToolNames
    /\ Cardinality(InFlight) < max_concurrent_jobs
    /\ container_name' = [container_name EXCEPT ![i] = ContainerName(tool_name[i], clock)]
    /\ \E how \in {"ok", "prepare_raised", "spawn_raised"} :
         CASE how = "ok" ->
                /\ process' = [process EXCEPT ![i] = "build"]
                /\ ri_pc' = [ri_pc EXCEPT ![i] = "build"]
                /\ UNCHANGED <<stage_log, validation>>
           [] how = "prepare_raised" ->
                \* l.111-117
                EndStage(i, "prepare:raised",
                         Result("docker_execution", "failed", Msg("exception", 0), NoText),
                         "none")
           [] how = "spawn_raised" ->
                \* l.176-177, then l.93-99
                EndStage(i, "build:raised",
                         Result("docker_build", "failed",
                                Msg("Failed to build Docker image", 0), Msg("exception", 0)),
                         "none")
    /\ UNCHANGED <<notDockerVars, dockerCfg, dockerEnv, tool_name, removals, cleanups>>

\* _build_image (l.158-174): the pair it returns when the build ends `how`.
BuildImage(how, timeout) ==
    CASE how = "exit0" -> <<TRUE, Msg("build output", 0)>>
      [] how = "nonzero" -> <<FALSE, Msg("build output", 0)>>
      [] how = "timeout" -> <<FALSE, Msg("Build timed out after", timeout)>>

\* A timeout branch that leaves the subprocess alone.
AfterWait_NoTerminate(how) == IF how = "timeout" THEN "running" ELSE "exited"

\* What becomes of the awaited subprocess (l.172-173, l.228-229).
AfterWait(how) == IF how = "timeout" THEN "terminated" ELSE "exited"

\* The build ends; on success _run_container starts `docker run` (l.93-107,
\* l.184-198).
BuildEnds(i) ==
    /\ ri_pc[i] = "build"
    /\ \E how \in {"exit0", "nonzero", "timeout"} :
         LET build_result == BuildImage(how, build_timeout) IN
         IF build_result[1]
         THEN /\ images' = images \cup {ImageTag(container_name[i])}
              /\ \E spawned \in BOOLEAN :
                   IF spawned
                   THEN /\ stage_log' = [stage_log EXCEPT ![i] = Append(@, "build:exit0")]
                        /\ ri_pc' = [ri_pc EXCEPT ![i] = "run"]
                        /\ IF container_name[i] \in containers
                           THEN \* the name is in use: docker run refuses
                                /\ process' = [process EXCEPT ![i] = "run_conflict"]
                                /\ UNCHANGED containers
                           ELSE /\ process' = [process EXCEPT ![i] = "run"]
                                /\ containers' = containers \cup {container_name[i]}
                        /\ UNCHANGED validation
                   ELSE \* l.236-241
                        /\ EndStage(i, "run:raised",
                                    Result("docker_validation", "failed",
                                           Msg("exception", 0), NoText),
                                    "exited")
                        /\ UNCHANGED containers
         ELSE /\ EndStage(i, "build:" \o how,
                          Result("docker_build", "failed",
                                 Msg("Failed to build Docker image", 0), build_result[2]),
                          AfterWait(how))
              /\ UNCHANGED <<containers, images>>
    /\ UNCHANGED <<notDockerVars, dockerCfg, clock, tool_name, container_name,
                   removals, cleanups>>

\* tool_spec.version, and the version strings the validation output may show.
ToolVersions == {"1.6.0", "1.7.0"}

\* No pattern of _extract_version matches the output.
NothingDetected == ""

\* What the heuristic meets in the output: a version string, nothing, or
\* an error (stdout that does not decode, a tool name that is no valid
\* regular expression in the third pattern).
Detections == ToolVersions \cup {NothingDetected, "raises"}

\* _extract_version (l.243-263): the annotation for the detected string.
ExtractVersion(detected, expected) ==
    IF detected = NothingDetected
    THEN "Version extracted from output"
    ELSE IF detected = expected
         THEN "Version verified: " \o detected
         ELSE "Version mismatch: expected " \o expected \o ", got " \o detected

\* A run stage that takes a detected version other than the requested one for
\* a failed validation.
RunContainer_MismatchFails(how, timeout, detected, expected) ==
    CASE how = "exit0" ->
           IF detected = "raises"
           THEN Result("docker_validation", "failed", Msg("exception", 0), NoText)
           ELSE IF detected \notin {NothingDetected, expected}
                THEN Result("docker_validation", "failed",
                            Msg(ExtractVersion(detected, expected), 0), NoText)
                ELSE Result("docker_validation", "passed", NoText,
                            Msg("Tool installed successfully. "
                                  \o ExtractVersion(detected, expected), 0))
      [] how = "nonzero" ->
           Result("docker_validation", "failed",
                  Msg("Validation command failed with exit code", 1), Msg("STDOUT STDERR", 0))
      [] how = "timeout" ->
           Result("docker_validation", "failed",
                  Msg("Validation timed out after", timeout), NoText)

\* _run_container (l.200-241): the result when the run ends `how` and, on exit
\* status 0, the version heuristic meets `detected`; an error raised by the
\* heuristic is caught by the outer except clause (l.236-241).
RunContainer(how, timeout, detected, expected) ==
    CASE how = "exit0" ->
           IF detected = "raises"
           THEN Result("docker_validation", "failed", Msg("exception", 0), NoText)
           ELSE Result("docker_validation", "passed", NoText,
                       Msg("Tool installed successfully. "
                             \o ExtractVersion(detected, expected), 0))
      [] how = "nonzero" ->
           Result("docker_validation", "failed",
                  Msg("Validation command failed with exit code", 1), Msg("STDOUT STDERR", 0))
      [] how = "timeout" ->
           Result("docker_validation", "failed",
                  Msg("Validation timed out after", timeout), NoText)

\* The awaited `docker run --rm` ends.
RunEnds(i) ==
    /\ ri_pc[i] = "run"
    /\ \E how \in {"exit0", "nonzero", "timeout"} :
         /\ how = "exit0" => process[i] = "run" /\ container_name[i] \in containers
         /\ how = "timeout" => process[i] = "run"
         /\ \E detected \in Detections, expected \in ToolVersions :
              EndStage(i, "run:" \o how,
                       RunContainer(how, run_timeout, detected, expected),
                       AfterWait(how))
         /\ IF process[i] = "run_conflict"
            THEN UNCHANGED containers
            ELSE IF how = "timeout"
                 THEN \* the client was terminated; the container may live on
                      \E left \in BOOLEAN :
                         containers' = IF left THEN containers
                                       ELSE containers \ {container_name[i]}
                 ELSE \* --rm
                      containers' = containers \ {container_name[i]}
    /\ UNCHANGED <<notDockerVars, dockerCfg, clock, images, tool_name, container_name,
                   removals, cleanups>>

RemovalOutcomes == {"ok", "nonzero", "raised"}

\* A _cleanup without its try/except.
CleanupRaises_Uncaught(rm, rmi) == rm = "raised" \/ rmi = "raised"

\* _cleanup (l.267, l.281-282): does a removal that raised leave _cleanup?
CleanupRaises(rm, rmi) == FALSE

\* _cleanup(container_name): `docker rm -f`, then `docker rmi`, in one try.
Cleanup(i, rm, rmi) ==
    /\ containers' = IF rm = "ok" THEN containers \ {container_name[i]} ELSE containers
    /\ images' = IF rm # "raised" /\ rmi = "ok"
                 THEN images \ {ImageTag(container_name[i])} ELSE images
    /\ removals' = [removals EXCEPT ![i] =
                      @ \cup {"rm"} \cup (IF rm # "raised" THEN {"rmi"} ELSE {})]
    /\ cleanups' = [cleanups EXCEPT ![i] = @ + 1]
    /\ IF CleanupRaises(rm, rmi)
       THEN /\ ri_pc' = [ri_pc EXCEPT ![i] = "raised"]
            /\ validation' = [validation EXCEPT ![i] = NoResult]
       ELSE /\ ri_pc' = [ri_pc EXCEPT ![i] = "returned"]
            /\ UNCHANGED validation

\* l.118-121: the finally clause, then the return of the result.
Finally(i) ==
    /\ ri_pc[i] = "finally"
    /\ IF cleanup_containers
       THEN \E rm, rmi \in RemovalOutcomes : Cleanup(i, rm, rmi)
       ELSE /\ ri_pc' = [ri_pc EXCEPT ![i] = "returned"]
            /\ UNCHANGED <<containers, images, removals, cleanups, validation>>
    /\ UNCHANGED <<notDockerVars, dockerCfg, clock, tool_name, container_name,
                   process, stage_log>>

\* _cleanup called once more for a name whose container and image are gone.
CleanupAgain(i) ==
    /\ ri_pc[i] = "returned" /\ cleanups[i] = 1
    /\ container_name[i] \notin containers
    /\ ImageTag(container_name[i]) \notin images
    /\ \E rm, rmi \in RemovalOutcomes : Cleanup(i, rm, rmi)
    /\ UNCHANGED <<notDockerVars, dockerCfg, clock, tool_name, container_name,
                   process, stage_log>>

DockerNext ==
    \/ Tick
    \/ \E i \in Invocations :
         \/ StartInstallation(i)
         \/ BuildEnds(i)
         \/ RunEnds(i)
         \/ Finally(i)
         \/ CleanupAgain(i)

\* One invocation, under every configuration of the runner.
DockerSpec == DockerInit /\ [][DockerNext]_vars

\* Two invocations admitted by a gate of two slots, with the default
\* configuration.
ConcurrentDockerInit ==
    /\ OrchestratorIdleAs("v1", 2)
    /\ ErrIdle /\ ArtIdle /\ ValIdle /\ AggIdle /\ CompIdle
    /\ cleanup_containers = TRUE
    /\ build_timeout = DefaultBuildTimeout
    /\ run_timeout = DefaultRunTimeout
    /\ clock = 0
    /\ containers = {}
    /\ images = {}
    /\ \E first, second \in ToolNames :
         tool_name = [i \in Invocations |->
                        IF i = 1 THEN first ELSE IF i = 2 THEN second ELSE ""]
    /\ container_name = [i \in Invocations |-> NoName]
    /\ ri_pc = [i \in Invocations |-> "idle"]
    /\ process = [i \in Invocations |-> "none"]
    /\ stage_log = [i \in Invocations |-> <<>>]
    /\ validation = [i \in Invocations |-> NoResult]
    /\ removals = [i \in Invocations |-> {}]
    /\ cleanups = [i \in Invocations |-> 0]

ConcurrentDockerSpec == ConcurrentDockerInit /\ [][DockerNext]_vars

\* ------------------------------------------------ core/artifact_manager.py
Versions == {"1.0", "2.0"}

WorkItems == ToolNames \X Versions

\* get_tool_directory (l.48-53): run_base_path / "tools" / tool_name.
ToolDirectory(name, version) == <<"tools", name>>

\* save_script (l.69-81): the script and its checksum file.
ScriptPath(name, version) == ToolDirectory(name, version) \o <<"tool_setup.sh">>

ChecksumPath(name, version) == ToolDirectory(name, version) \o <<"tool_setup.sh.sha256">>

\* save_json (l.101-112): run_base_path / subdirs... / filename.
JsonPath(filename, subdirs) == subdirs \o <<filename>>

\* The files a job writes for its work item, in the order it writes them:
\* orchestrator_v1.py l.160, l.183, l.243, l.315; orchestrator.py l.156.
JobFiles(v, item) ==
    LET name == item[1]
        version == item[2]
    IN  IF v = "v1"
        THEN <<ScriptPath(name, version), ChecksumPath(name, version),
               JsonPath("metadata.json", <<name, version>>),
               JsonPath("provenance.json", <<name, version>>),
               JsonPath("result.json", <<name, version>>)>>
        ELSE <<JsonPath("claude_result.json", <<"tools", name>>)>>

\* The rows of a work list are distinct (name, version) pairs.
ArtifactInit ==
    /\ \E v \in {"v1", "builtin"} : OrchestratorIdleAs(v, 1)
    /\ ErrIdle /\ DockerIdle /\ ValIdle /\ AggIdle /\ CompIdle
    /\ work_items \in [Rows -> WorkItems]
    /\ \A r1, r2 \in Rows : r1 # r2 => work_items[r1] # work_items[r2]
    /\ next_file = [r \in Rows |-> 1]
    /\ files = {}

\* The job of row r writes its next artifact file.
WriteArtifact(r) ==
    /\ next_file[r] <= Len(JobFiles(variant, work_items[r]))
    /\ files' = files \cup {<<r, JobFiles(variant, work_items[r])[next_file[r]]>>}
    /\ next_file' = [next_file EXCEPT ![r] = @ + 1]
    /\ UNCHANGED <<notArtVars, work_items>>

ArtifactNext == \E r \in Rows : WriteArtifact(r)

ArtifactSpec == ArtifactInit /\ [][ArtifactNext]_vars

\* ----------------------------------------------- core/script_validator.py
\* validate_script on a path (l.34-63): a path with no file behind it gets the
\* single result file_check/failed (l.47-53); otherwise the six steps, each
\* result carrying its step name.
ValidateScriptPath(file, have_shellcheck) ==
    IF file = MissingFile
    THEN <<[step |-> "file_check", status |-> "failed"]>>
    ELSE LET verdicts == ValidateScript(file, have_shellcheck)
         IN  [i \in 1..Len(verdicts) |->
                 [step |-> StepNames[i], status |-> verdicts[i]]]

StatusesOf(results) == [i \in 1..Len(results) |-> results[i].status]

ValidatorInit ==
    /\ OrchestratorIdle /\ ErrIdle /\ DockerIdle /\ ArtIdle /\ AggIdle /\ CompIdle
    /\ script_file \in ScriptFeatures \cup {MissingFile}
    /\ shellcheck_installed \in BOOLEAN
    /\ validation_results = <<>>
    /\ static_failed = "unknown"

\* orchestrator_v1.py l.193: validation_results = validate_script(script_path).
Validate ==
    /\ validation_results = <<>>
    /\ validation_results' = ValidateScriptPath(script_file, shellcheck_installed)
    /\ UNCHANGED <<notValVars, script_file, shellcheck_installed, static_failed>>

\* orchestrator_v1.py l.197-208: any failed result marks the job failed and
\* returns; otherwise the job goes on to the Docker stage (l.210).
CheckStatic ==
    /\ validation_results # <<>> /\ static_failed = "unknown"
    /\ static_failed' = IF AnyFailed(StatusesOf(validation_results))
                        THEN "failed" ELSE "proceeds"
    /\ UNCHANGED <<notValVars, script_file, shellcheck_installed, validation_results>>

ValidatorNext == Validate \/ CheckStatic

ValidatorSpec == ValidatorInit /\ [][ValidatorNext]_vars

\* --------------------------------------------------- core/shared_deps.py
\* A dependency name is a text; what the aggregator asks of a text is its
\* prefix ("lib", "python3-"), its suffix ("-dev"), and how it was typed:
\* plain, in upper case, padded with blanks, or both.
NumManifests == 2

Forms == {"plain", "upper", "padded", "upper_padded"}

Pkg(prefix, stem, suffix) ==
    [prefix |-> prefix, stem |-> stem, suffix |-> suffix, form |-> "plain"]

Typed(name, form) == [name EXCEPT !.form = form]

\* str.strip() (l.126, l.142).
Strip(n) ==
    CASE n.form = "padded" -> Typed(n, "plain")
      [] n.form = "upper_padded" -> Typed(n, "upper")
      [] OTHER -> n

\* str.lower() (l.127, l.143).
Lower(n) ==
    CASE n.form = "upper" -> Typed(n, "plain")
      [] n.form = "upper_padded" -> Typed(n, "padded")
      [] OTHER -> n

\* alias_map (l.96-119): three of its entries, one of each shape (a lib*
\* name with one -dev package, a python package, a name with two packages).
AliasKeys == {Pkg("lib", "ssl", ""), Pkg("", "cartopy", ""), Pkg("", "gdal", "")}

AliasMap(lk) ==
    CASE lk = Pkg("lib", "ssl", "") -> {Pkg("lib", "ssl", "-dev")}
      [] lk = Pkg("", "cartopy", "") -> {Pkg("python3-", "cartopy", "")}
      [] lk = Pkg("", "gdal", "") -> {Pkg("", "gdal-bin", ""), Pkg("lib", "gdal", "-dev")}

\* python_names (l.122).
PythonNames == {Pkg("", "cartopy", "")}

\* replacements (l.159-166).
ReplacementKeys == {Pkg("lib", "ssl", "")}

Replacement(bad) == Pkg("lib", "ssl", "-dev")

\* _runtime_apt_map (l.75-84).
RuntimeAptMap(rt) ==
    IF rt = Pkg("", "node", "") THEN {Pkg("", "nodejs", ""), Pkg("", "npm", "")} ELSE {}

\* The names manifests declare: alias keys, a lib* name that is no alias, and
\* a name that is neither, each as it stands and in upper case with blanks.
DeclaredNames ==
    {Typed(n, f) : n \in AliasKeys \cup {Pkg("lib", "foo", ""), Pkg("", "curl", "")},
                   f \in {"plain", "upper_padded"}}

DeclaredRuntimes == {Pkg("", "node", ""), Pkg("", "ruby", "")}

NoPrerequisites ==
    [apt |-> {}, runtimes |-> {}, libs |-> {}, services |-> {}, path |-> {}]

\* A manifest: its prerequisites and its PATH exports. Each manifest declares
\* one thing, or nothing (also what a manifest that fails to load counts as,
\* l.32-37).
Manifests ==
    {NoPrerequisites}
      \cup {[NoPrerequisites EXCEPT !.apt = {n}] : n \in DeclaredNames}
      \cup {[NoPrerequisites EXCEPT !.libs = {n}] : n \in DeclaredNames}
      \cup {[NoPrerequisites EXCEPT !.runtimes = {rt}] : rt \in DeclaredRuntimes}
      \cup {[NoPrerequisites EXCEPT !.services = {Pkg("", "postgres", "")}],
            [NoPrerequisites EXCEPT !.path = {Pkg("", "/opt/bin", "")}]}

\* sorted() compares texts by code point: a blank sorts before every letter
\* and upper case before lower case, so the way of typing decides first.
TextOrder ==
    <<Pkg("", "/opt/bin", ""), Pkg("", "cartopy", ""), Pkg("", "curl", ""),
      Pkg("", "gdal", ""), Pkg("", "gdal-bin", ""), Pkg("lib", "foo", ""),
      Pkg("lib", "gdal", "-dev"), Pkg("lib", "ssl", ""), Pkg("lib", "ssl", "-dev"),
      Pkg("", "node", ""), Pkg("", "nodejs", ""), Pkg("", "npm", ""),
      Pkg("", "postgres", ""), Pkg("python3-", "cartopy", ""), Pkg("", "ruby", "")>>

FormRank(form) ==
    CASE form = "upper_padded" -> 0
      [] form = "padded" -> 1
      [] form = "upper" -> 2
      [] form = "plain" -> 3

SortKey(n) ==
    FormRank(n.form) * Len(TextOrder)
        + (CHOOSE i \in 1..Len(TextOrder) : TextOrder[i] = Typed(n, "plain"))

RECURSIVE Sorted(_)
Sorted(S) ==
    IF S = {} THEN <<>>
    ELSE LET first == CHOOSE x \in S : \A y \in S : SortKey(x) <= SortKey(y)
         IN  <<first>> \o Sorted(S \ {first})

\* An aggregator that keeps the last manifest's entries only.
Update_Overwrite(acc, items) == IF items = {} THEN acc ELSE items

\* set.update (l.51-57).
Update(acc, items) == acc \cup items

\* l.135, l.144: lk in python_names.
IsPythonName(lk) == lk \in PythonNames

\* l.153: lk.startswith("lib") or lk.endswith("-dev").
LooksLikeSystemLib(lk) == lk.prefix = "lib" \/ lk.suffix = "-dev"

NoBuckets == [apt_pkgs |-> {}, python_only |-> {}, unknown |-> {}]

\* A loop over apt that takes every declared name as it stands.
NormalizeAptName_PassThrough(a) == [NoBuckets EXCEPT !.apt_pkgs = {Strip(a)}]

\* The body of the loop over apt (l.125-138), for one name.
NormalizeAptName(a) ==
    LET key == Strip(a)
        lk == Lower(key)
    IN  IF lk \in AliasKeys
        THEN IF \E pkg \in AliasMap(lk) : pkg.prefix = "python3-"
             THEN [NoBuckets EXCEPT !.python_only = {key}]
             ELSE [NoBuckets EXCEPT !.apt_pkgs = AliasMap(lk)]
        ELSE IF IsPythonName(lk)
             THEN [NoBuckets EXCEPT !.python_only = {key}]
             ELSE [NoBuckets EXCEPT !.apt_pkgs = {key}]

\* An alias resolution for libs that keeps the python packages.
NormalizeLibName_KeepsPython(l) ==
    LET key == Strip(l)
        lk == Lower(key)
    IN  IF lk \in AliasKeys
        THEN [NoBuckets EXCEPT !.apt_pkgs = AliasMap(lk)]
        ELSE IF LooksLikeSystemLib(lk)
             THEN [NoBuckets EXCEPT !.apt_pkgs = {key}]
             ELSE [NoBuckets EXCEPT !.unknown = {key}]

\* The body of the loop over libs (l.141-156), for one name.
NormalizeLibName(l) ==
    LET key == Strip(l)
        lk == Lower(key)
    IN  IF IsPythonName(lk)
        THEN [NoBuckets EXCEPT !.python_only = {key}]
        ELSE IF lk \in AliasKeys
             THEN [NoBuckets EXCEPT
                      !.apt_pkgs = {m \in AliasMap(lk) : m.prefix # "python3-"}]
             ELSE IF LooksLikeSystemLib(lk)
                  THEN [NoBuckets EXCEPT !.apt_pkgs = {key}]
                  ELSE [NoBuckets EXCEPT !.unknown = {key}]

\* l.167-170: a generic name left in apt_pkgs gives way to its dev package.
ApplyReplacements(pkgs) ==
    (pkgs \ ReplacementKeys)
        \cup {Replacement(bad) : bad \in pkgs \cap ReplacementKeys}

\* _normalize_shared_requirements (l.86-172).
NormalizeSharedRequirements(a, l) ==
    LET parts == {NormalizeAptName(x) : x \in a} \cup {NormalizeLibName(x) : x \in l}
    IN  [apt_pkgs |-> ApplyReplacements(UNION {b.apt_pkgs : b \in parts}),
         python_only |-> UNION {b.python_only : b \in parts},
         unknown |-> UNION {b.unknown : b \in parts}]

\* The aggregated manifest (l.62-70).
AggregatedManifest(a, rts, l, svcs, paths) ==
    LET norm == NormalizeSharedRequirements(a, l)
    IN  [apt |-> Sorted(norm.apt_pkgs),
         runtimes |-> Sorted(rts),
         libs |-> Sorted(l),
         python |-> Sorted(norm.python_only),
         unknown |-> Sorted(norm.unknown),
         services |-> Sorted(svcs),
         env_path |-> Sorted(paths)]

Range(seq) == {seq[i] : i \in 1..Len(seq)}

\* _generate_script (l.174-240): the packages of the one apt-get install, the
\* PATH exports and the two notes (each note cut to 200 characters, more than
\* the names here take).
GenerateScript(agg) ==
    [packages |-> Sorted(Range(agg.apt)
                           \cup UNION {RuntimeAptMap(rt) : rt \in Range(agg.runtimes)}),
     path_exports |-> agg.env_path,
     python_note |-> agg.python,
     unknown_note |-> agg.unknown]

\* The loop of aggregate (l.48-57) over a list of manifests, for one field.
RECURSIVE Collect(_, _)
Collect(seq, field) ==
    IF seq = <<>> THEN {}
    ELSE Update(Collect(SubSeq(seq, 1, Len(seq) - 1), field), seq[Len(seq)][field])

\* aggregate (l.39-73) as a function of the manifests in discovery order.
Aggregate(seq) ==
    AggregatedManifest(Collect(seq, "apt"), Collect(seq, "runtimes"),
                       Collect(seq, "libs"), Collect(seq, "services"),
                       Collect(seq, "path"))

\* _find_manifests (l.21-30): up to NumManifests manifests, in the order
\* iterdir happens to give.
AggregatorInit ==
    /\ OrchestratorIdle /\ ErrIdle /\ DockerIdle /\ ArtIdle /\ ValIdle /\ CompIdle
    /\ manifests \in UNION {[1..n -> Manifests] : n \in 0..NumManifests}
    /\ loaded = 0
    /\ apt = {} /\ runtimes = {} /\ libs = {} /\ services = {}
    /\ env_path_entries = {}
    /\ aggregated = NotWritten
    /\ shared_script = NotWritten

\* One turn of the loop of aggregate (l.48-57).
LoadManifest ==
    /\ loaded < Len(manifests)
    /\ LET data == manifests[loaded + 1]
       IN  /\ apt' = Update(apt, data.apt)
           /\ runtimes' = Update(runtimes, data.runtimes)
           /\ libs' = Update(libs, data.libs)
           /\ services' = Update(services, data.services)
           /\ env_path_entries' = Update(env_path_entries, data.path)
    /\ loaded' = loaded + 1
    /\ UNCHANGED <<notAggVars, manifests, aggregated, shared_script>>

\* The end of aggregate (l.59-73): normalise, sort, write shared_manifest.json.
WriteAggregated ==
    /\ loaded = Len(manifests) /\ aggregated = NotWritten
    /\ aggregated' = AggregatedManifest(apt, runtimes, libs, services, env_path_entries)
    /\ UNCHANGED <<notAggVars, manifests, loaded, apt, runtimes, libs, services,
                   env_path_entries, shared_script>>

\* write_shared_setup (l.242-248).
WriteSharedSetup ==
    /\ aggregated # NotWritten /\ shared_script = NotWritten
    /\ shared_script' = GenerateScript(aggregated)
    /\ UNCHANGED <<notAggVars, manifests, loaded, apt, runtimes, libs, services,
                   env_path_entries, aggregated>>

AggregatorNext == LoadManifest \/ WriteAggregated \/ WriteSharedSetup

AggregatorSpec == AggregatorInit /\ [][AggregatorNext]_vars

\* ------------------------------------------------------- core/composer.py
\* The directory names under tools/, in the order sorted() gives them (l.29).
ToolOrder == <<"fd", "jq", "yq">>

Absent == [dir |-> FALSE, script |-> FALSE, manifest |-> FALSE]

\* What tools/<name> can hold: nothing at all, or a directory with or without
\* tool_setup.sh and tool_manifest.json.
DirStates ==
    {Absent} \cup [dir : {TRUE}, script : BOOLEAN, manifest : BOOLEAN]

\* _list_tools (l.26-32): the directories that hold tool_setup.sh, sorted.
ListTools(dirs) ==
    SelectSeq(ToolOrder, LAMBDA name : dirs[name].dir /\ dirs[name].script)

\* l.72-73: the validation command comes from the manifest when there is one
\* that names it, else it is "<name> --version".
ValidateCmd(dirs, name) == IF dirs[name].manifest THEN "manifest" ELSE "default"

\* The lines _generate_run_all writes for one tool (l.68-81); the log lines
\* are left out.
ToolSteps(dirs, name) ==
    <<[kind |-> "chmod", tool |-> name, cmd |-> "chmod"],
      [kind |-> "install", tool |-> name, cmd |-> "flagged_or_plain"],
      [kind |-> "validate", tool |-> name, cmd |-> ValidateCmd(dirs, name)]>>

RECURSIVE StepsOf(_, _)
StepsOf(dirs, names) ==
    IF names = <<>> THEN <<>>
    ELSE ToolSteps(dirs, Head(names)) \o StepsOf(dirs, Tail(names))

\* _generate_run_all (l.58-85): under `set -euo pipefail`, the chmod of the
\* shared script guarded by `|| true` (l.65), the shared script (l.66), then
\* the steps of each tool in the order of tool_names.
GenerateRunAll(dirs, names) ==
    <<[kind |-> "chmod_shared", tool |-> "", cmd |-> "chmod_or_true"],
      [kind |-> "shared", tool |-> "", cmd |-> "shared_setup"]>>
        \o StepsOf(dirs, names)

\* _generate_dockerfile (l.87-102): one COPY per tool, in the same order.
GenerateDockerfile(names) == names

ComposerInit ==
    /\ OrchestratorIdle /\ ErrIdle /\ DockerIdle /\ ArtIdle /\ ValIdle /\ AggIdle
    /\ tool_dirs \in [Range(ToolOrder) -> DirStates]
    /\ supports_flag \in [Range(ToolOrder) -> BOOLEAN]
    /\ \A name \in Range(ToolOrder) : ~tool_dirs[name].script => ~supports_flag[name]
    /\ tool_names = <<>>
    /\ run_all = <<>>
    /\ dockerfile = <<>>
    /\ driver_pc = 0
    /\ trace = <<>>
    /\ driver_exit = NoExitYet

\* create_artifacts (l.104-109).
CreateArtifacts ==
    /\ driver_pc = 0
    /\ tool_names' = ListTools(tool_dirs)
    /\ run_all' = GenerateRunAll(tool_dirs, ListTools(tool_dirs))
    /\ dockerfile' = GenerateDockerfile(ListTools(tool_dirs))
    /\ driver_pc' = 1
    /\ UNCHANGED <<notCompVars, tool_dirs, supports_flag, trace, driver_exit>>

Running == driver_pc \in 1..Len(run_all) /\ driver_exit = NoExitYet

\* A pending fallback: the flagged invocation of the current step has failed
\* and the right-hand side of `||` has not run yet.
FallbackPending ==
    /\ trace # <<>>
    /\ trace[Len(trace)][1] = "install_flagged"
    /\ trace[Len(trace)][3] # "ok"

\* A command of the driver ends: with errexit a failure ends the driver,
\* unless the command is guarded (`|| true`, left-hand side of `||`).
Ran(event, failed, guarded) ==
    /\ trace' = Append(trace, event)
    /\ IF failed /\ ~guarded
       THEN driver_exit' = 1 /\ UNCHANGED driver_pc
       ELSE driver_pc' = driver_pc + 1 /\ UNCHANGED driver_exit
    /\ UNCHANGED <<notCompVars, tool_dirs, tool_names, run_all, dockerfile, supports_flag>>

\* l.65: chmod +x /workspace/shared_setup.sh || true.
RunChmodShared ==
    /\ Running /\ run_all[driver_pc].kind = "chmod_shared"
    /\ \E end \in {"ok", "error"} : Ran(<<"chmod_shared", "", end>>, end # "ok", TRUE)

\* l.66: log ... && /workspace/shared_setup.sh.
RunSharedSetup ==
    /\ Running /\ run_all[driver_pc].kind = "shared"
    /\ \E end \in {"ok", "error"} : Ran(<<"shared", "", end>>, end # "ok", FALSE)

\* l.69: chmod +x of the tool's installer.
RunChmod ==
    /\ Running /\ run_all[driver_pc].kind = "chmod"
    /\ \E end \in {"ok", "error"} :
         Ran(<<"chmod", run_all[driver_pc].tool, end>>, end # "ok", FALSE)

\* The ends of tool_setup.sh --skip-prereqs: an installer that knows the flag
\* succeeds or fails on the installation itself; one that does not know it
\* rejects its arguments.
FlaggedEnds(name) == IF supports_flag[name] THEN {"ok", "error"} ELSE {"unsupported"}

\* l.71, left-hand side of `||`: a failure does not end the driver and the
\* step is not left.
RunInstallFlagged ==
    /\ Running /\ run_all[driver_pc].kind = "install" /\ ~FallbackPending
    /\ \E end \in FlaggedEnds(run_all[driver_pc].tool) :
         /\ trace' = Append(trace, <<"install_flagged", run_all[driver_pc].tool, end>>)
         /\ driver_pc' = IF end = "ok" THEN driver_pc + 1 ELSE driver_pc
    /\ UNCHANGED <<notCompVars, tool_dirs, tool_names, run_all, dockerfile,
                   supports_flag, driver_exit>>

\* l.71, right-hand side of `||`: run whenever the left-hand side exited
\* non-zero, whatever the reason.
RunInstallPlain ==
    /\ Running /\ run_all[driver_pc].kind = "install" /\ FallbackPending
    /\ \E end \in {"ok", "error"} :
         Ran(<<"install_plain", run_all[driver_pc].tool, end>>, end # "ok", FALSE)

\* l.76-81: log ... && bash -lc <validate_cmd>.
RunValidate ==
    /\ Running /\ run_all[driver_pc].kind = "validate"
    /\ \E end \in {"ok", "error"} :
         Ran(<<"validate", run_all[driver_pc].tool, end>>, end # "ok", FALSE)

\* The last line has run.
DriverEnds ==
    /\ driver_pc = Len(run_all) + 1 /\ driver_exit = NoExitYet
    /\ driver_exit' = 0
    /\ UNCHANGED <<notCompVars, tool_dirs, tool_names, run_all, dockerfile,
                   supports_flag, driver_pc, trace>>

ComposerNext ==
    \/ CreateArtifacts
    \/ RunChmodShared
    \/ RunSharedSetup
    \/ RunChmod
    \/ RunInstallFlagged
    \/ RunInstallPlain
    \/ RunValidate
    \/ DriverEnds

ComposerSpec == ComposerInit /\ [][ComposerNext]_vars

\* ================================================================== claims
HasFailure(r, what) == \E i \in 1..Len(log[r]) : log[r][i] = <<"fail", what>>

Failed(r) == \E i \in 1..Len(log[r]) : log[r][i][1] = "fail"

Statuses(seq) == {seq[i] : i \in 1..Len(seq)}

\* C1: at most max_concurrent_jobs jobs are between acquiring and releasing
\* the gate, and a job that has not been admitted has done nothing: no status
\* assignment, no work-list write, no agent or validator call.
C1_GateBound ==
    /\ Cardinality(Inside) <= max_concurrent_jobs
    /\ \A r \in Rows :
         pc[r] \in {"idle", "wait"} => log[r] = <<>> /\ status[r] = read_status[r]

\* C1 witness: the gate is full and a selected job is waiting outside.
C1_Witness ==
    /\ Cardinality(Inside) = max_concurrent_jobs
    /\ \E r \in Rows : pc[r] = "wait"

PrefixOf(p, s) == Len(p) <= Len(s) /\ \A i \in 1..Len(p) : p[i] = s[i]

\* The stage statuses a job of this run passes through before its terminal
\* status.  orchestrator.py hands generation, validation and installation to
\* the agent and has only the in_progress stage of its own.
Stages ==
    IF variant = "builtin" THEN <<"in_progress">>
    ELSE IF dry_run THEN <<"in_progress", "generating", "validating">>
    ELSE <<"in_progress", "generating", "validating", "installing">>

IsStrictSequence(seq, stages) ==
    \/ PrefixOf(seq, stages)
    \/ seq = stages \o <<"completed">>
    \/ /\ seq # <<>>
       /\ seq[Len(seq)] = "failed"
       /\ PrefixOf(SubSeq(seq, 1, Len(seq) - 1), stages)

\* C2: the statuses assigned to a job are, in order, the stage statuses
\* (installing only when the container run is used) followed by exactly one
\* of completed or failed; a failure may cut the stages short, nothing is
\* skipped or reordered on the way to completed.
C2_StrictSequence == \A r \in Rows : IsStrictSequence(Assigned(r), Stages)

\* C3: every status change the pipeline makes moves strictly forward in
\* pending < in_progress < generating < validating < installing <
\* {completed, failed}, and a completed job never changes status again.  (The
\* first assignment to a re-selected failed item, the retry, is left out.)
C3_ForwardOnly ==
    [][\A r \in Rows :
         (status[r] # "none" /\ status'[r] # status[r] /\ log[r] # <<>>)
             => /\ StatusRank(status'[r]) > StatusRank(status[r])
                /\ status[r] # "completed"]_vars

\* C4: once a stage of a job has failed (the agent raised or reported
\* blockers, static validation has a failed step, the container run failed, an
\* artifact write raised), the job calls no further stage and the only status
\* it is given afterwards is failed, which it has been given when it ends.
C4_FailureStopsJob ==
    \A r \in Rows : \A i \in 1..Len(log[r]) :
        log[r][i][1] = "fail" =>
            /\ \A j \in (i + 1)..Len(log[r]) :
                 /\ log[r][j][1] # "call"
                 /\ log[r][j][1] = "status" => log[r][j][2] = "failed"
            /\ pc[r] = "done" =>
                 \E j \in (i + 1)..Len(log[r]) : log[r][j] = <<"status", "failed">>

\* C4 witness: with the container run switched on, one job ended on a failed
\* static step and another on agent blockers.
C4_Witness ==
    /\ ~dry_run
    /\ \E r1, r2 \in Rows :
         /\ pc[r1] = "done" /\ HasFailure(r1, "static")
         /\ pc[r2] = "done" /\ HasFailure(r2, "blockers")

\* C5: a failure inside one job stays inside it: every job that has ended has
\* a terminal status decided by its own stages alone (failed exactly when one
\* of its own stages failed), and once gather has returned every selected job
\* has ended and the summary counts the failing jobs as failed.
C5_Bulkhead ==
    /\ \A r \in Rows :
         pc[r] = "done" =>
             /\ status[r] \in Terminal
             /\ status[r] = "failed" <=> Failed(r)
             /\ ret[r] = "success" <=> ~Failed(r)
             /\ ret[r] # "none"
    /\ (run_pc \in {"save_summary", "returned", "raised"} /\ PendingTools # {}) =>
             /\ \A r \in PendingTools : pc[r] = "done"
             /\ summary.processed = Cardinality(PendingTools)
             /\ summary.failed = Cardinality({r \in PendingTools : Failed(r)})
             /\ summary.successful = Cardinality({r \in PendingTools : ~Failed(r)})

\* C5 witness: run() returned a summary of one failed and one successful job,
\* the failed one being a job whose agent call raised.
C5_Witness ==
    /\ run_pc = "returned"
    /\ summary.failed = 1 /\ summary.successful = 1
    /\ \E r1, r2 \in PendingTools :
         /\ HasFailure(r1, "agent") /\ status[r1] = "failed"
         /\ status[r2] = "completed"

\* C6: in a run with at least one selected job every exit path of a job
\* gives its gate slot back (free slots plus admitted jobs always make up
\* max_concurrent_jobs), so while run() is gathering some job can always
\* step or all of them have ended, and run() does not end by raising: it
\* returns a summary.
C6_RunReturnsSummary ==
    /\ semaphore + Cardinality(Inside) = max_concurrent_jobs
    /\ run_pc = "gather" =>
         \/ \A r \in PendingTools : pc[r] = "done"
         \/ \E r \in Rows : pc[r] \notin {"idle", "wait", "done"}
         \/ \E r \in Rows : pc[r] = "wait" /\ CanAcquire(semaphore)
    /\ PendingTools # {} => run_pc # "raised"

\* C7: run() processes exactly the rows read as pending or failed; a row read
\* in any other status keeps its status, gets no work-list write and is never
\* handed to the agent or a validator.
C7_OnlyPendingOrFailed ==
    \A r \in Rows :
        read_status[r] # "none" =>
            IF read_status[r] \in {"pending", "failed"}
            THEN run_pc \in {"save_summary", "returned", "raised"}
                     => pc[r] = "done" /\ Called(r, "agent")
            ELSE log[r] = <<>> /\ status[r] = read_status[r] /\ pc[r] = "idle"

\* C7 witness: run() returned having processed a row read as failed and left
\* alone a row read as installing.
C7_Witness ==
    /\ run_pc = "returned"
    /\ \E r1, r2 \in Rows :
         /\ read_status[r1] = "failed" /\ Called(r1, "agent")
         /\ read_status[r2] = "installing" /\ log[r2] = <<>>

\* C8: with dry_run set no job calls the container run or is given status
\* installing, and a job whose static validation has no failed step goes from
\* validating straight to completed.
C8_DryRun ==
    dry_run =>
        \A r \in Rows :
            /\ ~Called(r, "docker")
            /\ "installing" \notin Statuses(Assigned(r))
            /\ \A i \in 1..Len(Assigned(r)) :
                 (Assigned(r)[i] = "validating" /\ Called(r, "static")
                      /\ ~HasFailure(r, "static")) =>
                     /\ i < Len(Assigned(r)) => Assigned(r)[i + 1] = "completed"
                     /\ pc[r] = "done" => i < Len(Assigned(r))

\* C8 witness: a dry-run job ended after in_progress, generating, validating,
\* completed.
C8_Witness ==
    /\ dry_run
    /\ \E r \in Rows :
         /\ pc[r] = "done"
         /\ Assigned(r) = <<"in_progress", "generating", "validating", "completed">>

\* C9: the process exits with 1 exactly when run() returned a summary with
\* failed > 0 or a fatal error occurred; for every summary with failed = 0
\* that run() returns it exits with 0.
C9_ExitStatus ==
    main_pc = "exited" =>
        /\ exit_code = 1 <=> (run_pc # "returned" \/ summary.failed > 0)
        /\ exit_code = 0 <=> (run_pc = "returned" /\ summary.failed = 0)

\* C10: every in-memory status assignment of a job is followed at once, before
\* any other step of the job, by the work-list write of the same status, so the
\* statuses written for a row are the statuses assigned, in order.
C10_WriteFollowsStatus ==
    \A r \in Rows :
        /\ \A i \in 1..(Len(log[r]) - 1) :
             log[r][i][1] = "status" => log[r][i + 1] = <<"write", log[r][i][2]>>
        /\ pc[r] = "done" => Written(r) = Assigned(r)

\* C11: on every failure branch the error summary recorded on the job and the
\* message written to the work list are at most 200 characters long, whatever
\* the length of the underlying error text.
C11_MessagesTruncated ==
    /\ error_message <= ErrorLimit
    /\ sheet_message <= ErrorLimit

Last(seq) == seq[Len(seq)]

\* The text quotes a timeout of `seconds` seconds.
Mentions(text, seconds) ==
    /\ text # NoText
    /\ text[1] \in {"Build timed out after", "Validation timed out after"}
    /\ text[2] = seconds

Ended(i) == ri_pc[i] \in {"finally", "returned"} /\ stage_log[i] # <<>>

\* C12: on every exit path of run_installation with cleanup configured, the
\* container named for the attempt is force-removed after the last stage and
\* the image built for it is removed.
C12_CleanupOnEveryExit ==
    \A i \in Invocations :
        (ri_pc[i] = "returned" /\ cleanup_containers)
            => /\ "rm" \in removals[i]
               /\ (\E k \in 1..Len(stage_log[i]) : stage_log[i][k] = "build:exit0")
                      => "rmi" \in removals[i]

\* C13: a removal that exits non-zero, errors or times out inside cleanup is
\* never raised out of run_installation and never changes the result already
\* computed, also when cleanup runs a second time for names that are gone.
C13_CleanupNeverRaises ==
    [][\A i \in Invocations :
         ri_pc[i] \in {"finally", "returned"}
             => /\ ri_pc'[i] \in {"finally", "returned"}
                /\ validation'[i] = validation[i]]_vars

\* C13 witness: a passed attempt was returned although its container removal
\* raised, which left the image removal unissued and the image in place.
C13_Witness ==
    \E i \in Invocations :
        /\ ri_pc[i] = "returned"
        /\ cleanups[i] = 1
        /\ removals[i] = {"rm"}
        /\ ImageTag(container_name[i]) \in images
        /\ validation[i].status = "passed"

\* C14 as stated: after a build timeout the build subprocess is terminated
\* and reaped, the run stage is not started and the result is failed with an
\* error text quoting the build timeout; after a run timeout likewise with the
\* run timeout.
C14_TimeoutInError ==
    \A i \in Invocations :
        Ended(i) =>
            /\ Last(stage_log[i]) = "build:timeout" =>
                 /\ process[i] = "terminated"
                 /\ stage_log[i] = <<"build:timeout">>
                 /\ validation[i].status = "failed"
                 /\ Mentions(validation[i].error, build_timeout)
            /\ Last(stage_log[i]) = "run:timeout" =>
                 /\ process[i] = "terminated"
                 /\ validation[i].status = "failed"
                 /\ Mentions(validation[i].error, run_timeout)

\* C14: after a build timeout the build subprocess is terminated and reaped,
\* the run stage is not started and the result is failed with the error
\* 'Failed to build Docker image' and an output quoting the build timeout;
\* after a run timeout the run subprocess is terminated and reaped and the
\* result is failed with an error quoting the run timeout.
C14_TimeoutReported ==
    \A i \in Invocations :
        Ended(i) =>
            /\ Last(stage_log[i]) = "build:timeout" =>
                 /\ process[i] = "terminated"
                 /\ stage_log[i] = <<"build:timeout">>
                 /\ validation[i].status = "failed"
                 /\ validation[i].error = Msg("Failed to build Docker image", 0)
                 /\ Mentions(validation[i].output, build_timeout)
            /\ Last(stage_log[i]) = "run:timeout" =>
                 /\ process[i] = "terminated"
                 /\ validation[i].status = "failed"
                 /\ Mentions(validation[i].error, run_timeout)

\* C14 witness: an attempt whose build timed out has returned.
C14_Witness ==
    \E i \in Invocations :
        /\ ri_pc[i] = "returned"
        /\ stage_log[i] = <<"build:timeout">>
        /\ validation[i].step = "docker_build"

\* C15: two invocations in flight at the same time have distinct container
\* names (hence distinct image tags), so the container a running invocation
\* created is not removed by another invocation.
C15_DistinctNames ==
    /\ \A i, j \in InFlight : i # j => container_name[i] # container_name[j]
    /\ \A i \in Invocations :
         (ri_pc[i] = "run" /\ process[i] = "run") => container_name[i] \in containers

\* C16: no two jobs of a run write the same artifact path: the files written
\* for one work item are disjoint from those written for every other work
\* item, two versions of one tool name included.
C16_DisjointArtifacts ==
    \A f, g \in files : f[2] = g[2] => f[1] = g[1]

\* C17: no artifact file of a job is written after the job has been given a
\* terminal status (completed or failed).
C17_NoArtifactAfterTerminal ==
    \A r \in Rows : \A i, j \in 1..Len(log[r]) :
        (i < j /\ log[r][i][1] = "status" /\ log[r][i][2] \in Terminal)
            => log[r][j][1] # "artifact"

\* C18: when the container runtime is unavailable the orchestrator is never
\* constructed, so run() is not entered: no status changes, no work-list
\* write is issued and the agent is never called.
C18_NoRunWithoutDocker ==
    ~docker_available =>
        /\ run_pc \in {"new", "idle", "construction_failed"}
        /\ \A r \in Rows : log[r] = <<>> /\ status[r] = "none"

Validated == validation_results # <<>>

StepVerdict(name) ==
    CHOOSE v \in {"passed", "failed", "skipped", "absent"} :
        IF \E i \in 1..Len(validation_results) : validation_results[i].step = name
        THEN \E i \in 1..Len(validation_results) :
                 validation_results[i].step = name /\ validation_results[i].status = v
        ELSE v = "absent"

SixInOrder ==
    /\ Len(validation_results) = Len(StepNames)
    /\ \A i \in 1..Len(StepNames) : validation_results[i].step = StepNames[i]

\* The verdict each step gives on its own, whatever the other steps found.
OwnVerdicts ==
    /\ StepVerdict("shebang_check") = ValidateShebang(script_file)
    /\ StepVerdict("safety_flags") = ValidateSafetyFlags(script_file)
    /\ StepVerdict("bash_syntax") = ValidateBashSyntax(script_file)
    /\ StepVerdict("shellcheck") = ValidateShellcheck(script_file, shellcheck_installed)
    /\ StepVerdict("idempotency_check") = ValidateIdempotencyPattern(script_file)
    /\ StepVerdict("secrets_check") = ValidateNoSecrets(script_file)

FailedSteps ==
    {validation_results[i].step :
        i \in {j \in 1..Len(validation_results) : validation_results[j].status = "failed"}}

OnlyShebangMissing == script_file = [GoodScript EXCEPT !.shebang = "none"]

OnlySafetyMissing == script_file = [GoodScript EXCEPT !.safety = FALSE]

\* C19 as stated: validate_script returns, for every input path, one result
\* for each of the six steps in the fixed order.
C19_SixResultsAlways == Validated => SixInOrder

\* C19 (amended): for a path with a file behind it validate_script returns one
\* result for each of the six steps in the fixed order, each step reporting
\* its own verdict whatever the earlier steps found, and a script missing only
\* the shebang or only the safety flags fails exactly that step; for a path
\* with no file it returns the single result file_check/failed.
C19_SixResultsForExistingFile ==
    Validated =>
        /\ script_file # MissingFile => SixInOrder /\ OwnVerdicts
        /\ OnlyShebangMissing => FailedSteps = {"shebang_check"}
        /\ OnlySafetyMissing => FailedSteps = {"safety_flags"}
        /\ script_file = MissingFile =>
               validation_results = <<[step |-> "file_check", status |-> "failed"]>>

\* A script with a failed early step (no shebang) and a failed late step
\* (a secret) has been validated: both are reported.
C19_Witness ==
    /\ Validated
    /\ script_file = [GoodScript EXCEPT !.shebang = "none", !.secret = TRUE]
    /\ FailedSteps = {"shebang_check", "secrets_check"}

\* C20: the job fails static validation exactly when some returned step has
\* status failed; a skipped lint step never fails the job nor stops it from
\* going on to the next stage, and a lint run with warnings only is passed.
C20_FailsIffStepFailed ==
    static_failed # "unknown" =>
        /\ static_failed = "failed" <=> FailedSteps # {}
        /\ static_failed = "proceeds" <=> FailedSteps = {}
        /\ (script_file # MissingFile /\ ~shellcheck_installed) =>
               /\ StepVerdict("shellcheck") = "skipped"
               /\ "shellcheck" \notin FailedSteps
        /\ (script_file # MissingFile /\ shellcheck_installed
              /\ script_file.lint = "warn") => StepVerdict("shellcheck") = "passed"

\* A script whose only non-passed step is the skipped lint goes on to the
\* next stage.
C20_Witness ==
    /\ static_failed = "proceeds"
    /\ ~shellcheck_installed
    /\ StepVerdict("shellcheck") = "skipped"
    /\ FailedSteps = {}

Declared(field) == UNION {manifests[i][field] : i \in 1..Len(manifests)}

LowerTrim(n) == Lower(Strip(n))

StrictlySorted(seq) ==
    \A i \in 1..(Len(seq) - 1) : SortKey(seq[i]) < SortKey(seq[i + 1])

\* C21: the apt list of the aggregated manifest holds no name of the
\* python-only table, compared in lower case after trimming, wherever the
\* name was declared, and is sorted without duplicates.
C21_NoPythonOnlyInApt ==
    aggregated # NotWritten =>
        /\ \A i \in 1..Len(aggregated.apt) :
               LowerTrim(aggregated.apt[i]) \notin PythonNames
        /\ StrictlySorted(aggregated.apt)

\* cartopy was declared under apt in upper case with blanks and under libs
\* as it stands; both spellings ended in the python list.
C21_Witness ==
    /\ aggregated # NotWritten
    /\ Typed(Pkg("", "cartopy", ""), "upper_padded") \in Declared("apt")
    /\ Pkg("", "cartopy", "") \in Declared("libs")
    /\ aggregated.python = <<Typed(Pkg("", "cartopy", ""), "upper"), Pkg("", "cartopy", "")>>

Orders(n) == {p \in [1..n -> 1..n] : \A i, j \in 1..n : p[i] = p[j] => i = j}

Reordered(seq, p) == [i \in 1..Len(seq) |-> seq[p[i]]]

\* C22: the aggregated manifest and the shared script are the same for every
\* order in which the manifests are discovered, and their lists are sorted.
C22_OrderIndependent ==
    /\ aggregated # NotWritten =>
           /\ \A p \in Orders(Len(manifests)) :
                  aggregated = Aggregate(Reordered(manifests, p))
           /\ \A f \in DOMAIN aggregated : StrictlySorted(aggregated[f])
    /\ shared_script # NotWritten =>
           /\ \A p \in Orders(Len(manifests)) :
                  shared_script = GenerateScript(Aggregate(Reordered(manifests, p)))
           /\ StrictlySorted(shared_script.packages)

\* Two manifests declared different apt packages, the later one the package
\* that sorts first; the script installs both in sorted order.
C22_Witness ==
    /\ shared_script # NotWritten
    /\ Len(manifests) = 2
    /\ manifests[1].apt = {Pkg("lib", "foo", "")}
    /\ manifests[2].apt = {Pkg("", "curl", "")}
    /\ shared_script.packages = <<Pkg("", "curl", ""), Pkg("lib", "foo", "")>>

AptHasNoGenericName ==
    \A i \in 1..Len(aggregated.apt) :
        LowerTrim(aggregated.apt[i]) \notin AliasKeys \cup ReplacementKeys

MapsToPython(lk) == \E pkg \in AliasMap(lk) : pkg.prefix = "python3-"

\* C23 as stated: no key of the alias or replacement table is in the apt set,
\* and every such name declared under apt or libs is replaced by its concrete
\* packages.
C23_AliasesReplaced ==
    aggregated # NotWritten =>
        /\ AptHasNoGenericName
        /\ \A n \in Declared("apt") \cup Declared("libs") :
               LowerTrim(n) \in AliasKeys =>
                   AliasMap(LowerTrim(n)) \subseteq Range(aggregated.apt)

\* C23 (amended): no key of the alias or replacement table is in the apt set;
\* a declared alias whose packages are system packages is replaced by them,
\* while a declared alias of a python package goes to the python list under
\* its own name and its python3- package is not added to the apt set.
C23_AliasesResolved ==
    aggregated # NotWritten =>
        /\ AptHasNoGenericName
        /\ \A n \in Declared("apt") \cup Declared("libs") :
               LowerTrim(n) \in AliasKeys =>
                   IF MapsToPython(LowerTrim(n))
                   THEN /\ Strip(n) \in Range(aggregated.python)
                        /\ AliasMap(LowerTrim(n)) \cap Range(aggregated.apt) = {}
                   ELSE AliasMap(LowerTrim(n)) \subseteq Range(aggregated.apt)

\* Two manifests declared the raw lib libssl, one in upper case with blanks:
\* the apt set is libssl-dev alone.
C23_Witness ==
    /\ aggregated # NotWritten
    /\ Declared("libs") = {Pkg("lib", "ssl", ""), Typed(Pkg("lib", "ssl", ""), "upper_padded")}
    /\ aggregated.apt = <<Pkg("lib", "ssl", "-dev")>>

\* C24: every declared lib name that is no alias, no python-only name and no
\* lib*/-dev name is in the unknown bucket; no unknown name is in the apt set
\* or among the packages the shared script installs; every declared lib name
\* is in apt (possibly mapped), python-only or unknown.
C24_UnknownNeverInstalled ==
    aggregated # NotWritten =>
        /\ \A n \in Declared("libs") :
               LET lk == LowerTrim(n)
               IN  /\ (lk \notin AliasKeys \cup PythonNames /\ ~LooksLikeSystemLib(lk))
                          => Strip(n) \in Range(aggregated.unknown)
                   /\ \/ Strip(n) \in Range(aggregated.unknown)
                      \/ Strip(n) \in Range(aggregated.python)
                      \/ Strip(n) \in Range(aggregated.apt)
                      \/ (lk \in AliasKeys /\ AliasMap(lk) \subseteq Range(aggregated.apt))
        /\ Range(aggregated.unknown) \cap Range(aggregated.apt) = {}
        /\ shared_script # NotWritten =>
               Range(aggregated.unknown) \cap Range(shared_script.packages) = {}

\* C27: when run() returns after processing at least one job, processed is
\* the number of selected items, successful + failed = processed, successful
\* is the number of processed jobs whose final status is completed, failed
\* the number whose final status is failed, and no processed job is left in
\* in_progress, generating, validating or installing.
C27_SummaryCounts ==
    (run_pc = "returned" /\ PendingTools # {}) =>
        /\ summary.processed = Cardinality(PendingTools)
        /\ summary.successful + summary.failed = summary.processed
        /\ summary.successful
               = Cardinality({r \in PendingTools : status[r] = "completed"})
        /\ summary.failed = Cardinality({r \in PendingTools : status[r] = "failed"})
        /\ \A r \in PendingTools :
               status[r] \notin {"in_progress", "generating", "validating", "installing"}

\* run() returned for two jobs: one was completed and then failed by a
\* later write that raised, and is counted by its final status; the other
\* completed.
C27_Witness ==
    /\ run_pc = "returned"
    /\ summary.processed = 2 /\ summary.successful = 1 /\ summary.failed = 1
    /\ \E r1, r2 \in PendingTools :
         /\ "completed" \in Statuses(Assigned(r1)) /\ status[r1] = "failed"
         /\ ret[r2] = "success" /\ status[r2] = "completed"

Composed == driver_pc > 0

StepTools(kind) ==
    SelectSeq([i \in 1..Len(run_all) |-> run_all[i]], LAMBDA s : s.kind = kind)

\* C25: the composer's tool list is exactly the tools whose directory holds
\* both a script and a manifest, sorted by name, and the driver script and
\* the image definition take the tools in that order.
C25_ScriptAndManifest ==
    Composed =>
        /\ tool_names = SelectSeq(ToolOrder,
                            LAMBDA name : tool_dirs[name].script /\ tool_dirs[name].manifest)
        /\ dockerfile = tool_names
        /\ \A kind \in {"chmod", "install", "validate"} :
               [i \in 1..Len(StepTools(kind)) |-> StepTools(kind)[i].tool] = tool_names

\* A command that failed on its own account: not the guarded chmod of the
\* shared script, not an installer rejecting the flag.
GenuineFailure(event) ==
    /\ event[1] \in {"shared", "chmod", "install_flagged", "install_plain", "validate"}
    /\ event[3] = "error"

\* C26: the shared script runs before any tool step, and once a command of
\* the driver has failed (shared setup, a tool's installation, a tool's
\* validation) no step of a later tool runs and the driver does not exit 0.
C26_FailFast ==
    /\ \A i \in 1..Len(trace) :
           trace[i][2] # "" => \E j \in 1..(i - 1) : trace[j][1] = "shared"
    /\ \A i \in 1..Len(trace) :
           GenuineFailure(trace[i]) =>
               /\ \A j \in (i + 1)..Len(trace) : trace[j][2] = trace[i][2]
               /\ driver_exit # 0

\* C30: the installer runs without --skip-prereqs only right after its
\* flagged invocation failed for not knowing the flag.
C30_FallbackOnlyIfUnsupported ==
    \A i \in 1..Len(trace) :
        trace[i][1] = "install_plain" =>
            /\ i > 1
            /\ trace[i - 1] = <<"install_flagged", trace[i][2], "unsupported">>

BothStagesExitZero(i) == stage_log[i] = <<"build:exit0", "run:exit0">>

\* The annotations of the version heuristic that report a mismatch.
MismatchTexts ==
    {ExtractVersion(d, e) : <<d, e>> \in {p \in ToolVersions \X ToolVersions : p[1] # p[2]}}

ReportsMismatch(res) ==
    \E m \in MismatchTexts :
        \/ res.error = Msg(m, 0)
        \/ res.output = Msg("Tool installed successfully. " \o m, 0)

\* C28: run_installation returns passed only if the image build exited 0
\* within the build timeout and the validation command then exited 0 within
\* the run timeout; in every other case, a raised exception included, it
\* returns a failed result and never raises; a result that reports a version
\* mismatch is a passed one.
C28_PassedOnlyAfterBothStages ==
    \A i \in Invocations :
        /\ ri_pc[i] # "raised"
        /\ ri_pc[i] = "returned" =>
             /\ validation[i].status \in {"passed", "failed"}
             /\ validation[i].status = "passed" => BothStagesExitZero(i)
             /\ ~BothStagesExitZero(i) => validation[i].status = "failed"
             /\ ReportsMismatch(validation[i]) => validation[i].status = "passed"

\* C28 witness: an attempt whose two stages exited 0 has returned passed with
\* a version-mismatch annotation, after a cleanup whose removal raised.
C28_Witness ==
    \E i \in Invocations :
        /\ ri_pc[i] = "returned"
        /\ BothStagesExitZero(i)
        /\ ReportsMismatch(validation[i])
        /\ validation[i].status = "passed"
        /\ validation[i].error = NoText
        /\ removals[i] = {"rm"}

\* The attempt built its image.
Built(i) == \E k \in 1..Len(stage_log[i]) : stage_log[i][k] = "build:exit0"

\* C29: within one cleanup of an attempt that built an image, the removal of
\* the image is attempted however the removal of the container ended.
C29_ImageRemovalAlwaysAttempted ==
    \A i \in Invocations :
        (cleanups[i] >= 1 /\ Built(i)) => "rmi" \in removals[i]

====
